---- MODULE Spec2Model ----
(***************************************************************************)
(* A model of denophile's junction layer (junction.ts), the part of        *)
(* file.ts it rests on, the memoizing Primary of satellite.ts, and of      *)
(* media.ts the filename grammar, parseData, standardFilename and the info *)
(* of a MediaPrimary.                                                      *)
(*                                                                         *)
(* Text is modelled as a sequence of tokens.  In a file system location a  *)
(* token is "/", "." or a word holding neither; in a filename handed to    *)
(* the grammar a token is one character.  Every word used is made of       *)
(* characters encodeURIComponent leaves alone, so encoding and decoding a  *)
(* name change nothing here.                                               *)
(***************************************************************************)
EXTENDS Integers, Sequences, FiniteSets, TLC

VARIABLES
    disk,            \* the file system: folders' listings and descriptor files
    cur,             \* the Entry under study: None or Some(entry)
    curPath,         \* the location loadEntry was last called with (history)
    loadStatus,      \* outcome of the last loadEntry call
    kids,            \* outcome of the last Entry.children() call on cur
    listed,          \* per call on cur since the last refresh: the folders it listed
    entryChildren_,  \* Primary.entryChildren_ of the Primary wrapping cur
    pret,            \* what the last Primary.entryChildren() call returned
    calls,           \* how many calls have been made on cur and its Primary
    op,              \* the last operation performed
    data,            \* the Data record handed to standardFilename: None or Some(d)
    primary,         \* the MediaPrimary under study but for its name
    filename,        \* its name, a filename without extension: None or Some(characters)
    parsed,          \* what parseData(filename) returned: None or Some(result)
    info_,           \* MediaPrimary.info_ of the file named filename
    tree,            \* the MediaPrimary objects made so far, by their place under the root
    walk,            \* the iterations of descendants(): the one going on, and those before it
    out,             \* what the last operation on the tree returned
    timeout,         \* the promise of delay(ms) under study, and what has happened to it
    retried,         \* the call of retry(fn, delays) under study
    alist,           \* the AsyncList under study
    iters,           \* the iterators made of it
    children_,       \* Primary.children_ of the Primary wrapping cur
    flights,         \* the children() calls made on that Primary, by call number
    made,            \* how many times that Primary has made child objects
    log              \* the calls, returns and refreshes on that Primary, in order

fileVars == <<disk, cur, curPath, loadStatus, kids, listed, entryChildren_, pret, calls>>
mediaVars == <<data, primary, filename, parsed, info_>>
treeVars == <<tree, walk, out>>
asyncVars == <<timeout, retried, alist, iters>>
cacheVars == <<children_, flights, made, log>>
vars == <<fileVars, op, mediaVars, treeVars, asyncVars, cacheVars>>

(***************************************************************************)
(* Bounds of the model                                                     *)
(***************************************************************************)
MaxKids == 2      \* a folder of the explored disks lists at most this many children
MaxCalls == 2     \* children() is called at most this often on one Entry

(***************************************************************************)
(* Optional values: undefined is None, a defined value v is Some(v)        *)
(***************************************************************************)
None == <<>>
Some(v) == <<v>>

(***************************************************************************)
(* file.ts                                                                 *)
(***************************************************************************)
SEPARATOR == "/"

\* String.prototype.lastIndexOf(tok, from), 1-based; 0 when absent
RECURSIVE LastIndexOf(_, _, _)
LastIndexOf(s, tok, from) ==
    IF from < 1 THEN 0
    ELSE IF from <= Len(s) /\ s[from] = tok THEN from
    ELSE LastIndexOf(s, tok, from - 1)

EndsWithSeparator(path) == Len(path) > 0 /\ path[Len(path)] = SEPARATOR

isFolderPath(filePath) == EndsWithSeparator(filePath)

\* The FileName {name, extension?} of a path: folders have no extension
fileName(filePath) ==
    LET last == IF EndsWithSeparator(filePath) THEN Len(filePath) - 1 ELSE Len(filePath)
        slashIndex == LastIndexOf(filePath, SEPARATOR, last)
        name == SubSeq(filePath, slashIndex + 1, last)
        dotIndex == LastIndexOf(name, ".", Len(name))
    IN  IF ~isFolderPath(filePath) /\ dotIndex >= 1
        THEN [name |-> SubSeq(name, 1, dotIndex - 1),
              extension |-> Some(SubSeq(name, dotIndex + 1, Len(name)))]
        ELSE [name |-> name, extension |-> None]

\* Deno.lstat succeeds on a folder location iff the folder is on the disk
exists(d, filePath) == filePath \in DOMAIN d.list

\* readFile(fileOrPath, buffer): readRange returns at most buffer.length bytes,
\* and a result that fills the buffer is refused
readFile(size, bufferLength) ==
    LET resultLength == IF size < bufferLength THEN size ELSE bufferLength
    IN  IF resultLength >= bufferLength THEN "TooLarge" ELSE "ok"

\* directoryEntries(folderPath): one URL per Deno.readDir entry, in its order,
\* a directory's URL ending with the separator
directoryEntries(d, folderPath) ==
    [i \in 1..Len(d.list[folderPath]) |->
        folderPath \o d.list[folderPath][i].name
                   \o (IF d.list[folderPath][i].isDirectory THEN <<SEPARATOR>> ELSE <<>>)]

(***************************************************************************)
(* junction.ts                                                             *)
(***************************************************************************)
JUNCTION_EXTENSION == <<"junction">>
JUNCTION_MAXIMUM_LENGTH == 32768

\* new URL(urlLine, url): an absolute line stands for itself, a relative one
\* replaces what follows the base's last separator
ResolveURL(urlLine, base) ==
    IF Len(urlLine) > 0 /\ urlLine[1] = SEPARATOR THEN urlLine
    ELSE SubSeq(base, 1, LastIndexOf(base, SEPARATOR, Len(base))) \o urlLine

\* Mutant of loadJunction: the first line is not checked
loadJunctionAnyType(d, url) ==
    LET file == d.junc[url]
        read == readFile(file.size, JUNCTION_MAXIMUM_LENGTH)
    IN  IF read # "ok" THEN [status |-> read, type |-> "", urls |-> <<>>]
        ELSE [status |-> "ok", type |-> file.first,
              urls |-> [i \in 1..Len(file.rest) |-> ResolveURL(file.rest[i], url)]]

\* loadJunction(url): [status, type, urls].  A descriptor file is its size in
\* bytes, first == text.split("\n")[0] and rest == the lines after it.
loadJunction(d, url) ==
    LET file == d.junc[url]
        read == readFile(file.size, JUNCTION_MAXIMUM_LENGTH)
    IN  IF read # "ok" THEN [status |-> read, type |-> "", urls |-> <<>>]
        ELSE IF file.first \notin {"OPTIONAL", "REQUIRED"}
        THEN [status |-> "BadType", type |-> file.first, urls |-> <<>>]
        ELSE [status |-> "ok", type |-> file.first,
              urls |-> [i \in 1..Len(file.rest) |-> ResolveURL(file.rest[i], url)]]

\* new Entry(name, targets, targetsMayBeMissing).  origins is history, one per
\* target: the location loadEntry was given and what kind of location it was.
Entry(name, targets, targetsMayBeMissing, origins) ==
    [name |-> name.name, extension |-> name.extension, targets |-> targets,
     targetsMayBeMissing |-> targetsMayBeMissing, origins |-> origins]

\* loadEntry(filePath): [status, entry]
loadEntry(d, url) ==
    LET name == fileName(url)
        isJunction == (name.extension = Some(JUNCTION_EXTENSION))
    IN  IF ~isJunction
        THEN [status |-> "ok",
              entry |-> Some(Entry(name, <<url>>, FALSE,
                                   <<[via |-> url, kind |-> "PLAIN"]>>))]
        ELSE LET junction == loadJunction(d, url)
             IN  IF junction.status # "ok"
                 THEN [status |-> junction.status, entry |-> None]
                 ELSE [status |-> "ok",
                       entry |-> Some(Entry(fileName(name.name), junction.urls,
                                            junction.type = "OPTIONAL",
                                            [i \in 1..Len(junction.urls) |->
                                                [via |-> url, kind |-> junction.type]]))]

isFolder(e) == \E i \in 1..Len(e.targets) : isFolderPath(e.targets[i])

\* Mutants of HasChildren: every target existence-checked; none checked
HasChildrenAllChecked(d, e, url) == isFolderPath(url) /\ exists(d, url)

HasChildrenUnchecked(d, e, url) == isFolderPath(url)

\* The predicate of Entry.targetsWithChildren for one target
HasChildren(d, e, url) ==
    IF ~isFolderPath(url) THEN FALSE
    ELSE IF ~e.targetsMayBeMissing THEN TRUE
    ELSE exists(d, url)

SameName(a, b) == a.name = b.name /\ a.extension = b.extension

\* result.find(existingEntry => same name and extension): its index, or 0
FindIndex(result, entry) ==
    IF \E i \in 1..Len(result) : SameName(result[i], entry)
    THEN CHOOSE i \in 1..Len(result) :
            /\ SameName(result[i], entry)
            /\ \A j \in 1..(i - 1) : ~SameName(result[j], entry)
    ELSE 0

\* Mutant of Merge: the found entry's targets are put after the new ones
MergePrepending(result, entry) ==
    LET found == FindIndex(result, entry)
    IN  IF found # 0
        THEN [result EXCEPT
                ![found].targetsMayBeMissing = result[found].targetsMayBeMissing
                                               \/ entry.targetsMayBeMissing,
                ![found].targets = entry.targets \o result[found].targets,
                ![found].origins = entry.origins \o result[found].origins]
        ELSE Append(result, entry)

\* Mutant of Merge: the found entry's flag is overwritten by the new entry's
MergeOverwriting(result, entry) ==
    LET found == FindIndex(result, entry)
    IN  IF found # 0
        THEN [result EXCEPT
                ![found].targetsMayBeMissing = entry.targetsMayBeMissing,
                ![found].targets = result[found].targets \o entry.targets,
                ![found].origins = result[found].origins \o entry.origins]
        ELSE Append(result, entry)

\* The body of children()'s inner loop for one loaded child
Merge(result, entry) ==
    LET found == FindIndex(result, entry)
    IN  IF found # 0
        THEN [result EXCEPT
                ![found].targetsMayBeMissing = result[found].targetsMayBeMissing
                                               \/ entry.targetsMayBeMissing,
                ![found].targets = result[found].targets \o entry.targets,
                ![found].origins = result[found].origins \o entry.origins]
        ELSE Append(result, entry)

\* The running state of one children() call
Run(status, result, reads, at) ==
    [status |-> status, value |-> result, reads |-> reads, at |-> at]

\* children()'s inner loop over directoryEntries(target), from child i on
RECURSIVE ChildLoop(_, _, _, _, _)
ChildLoop(d, t, urls, i, run) ==
    IF i > Len(urls) THEN run
    ELSE LET loaded == loadEntry(d, urls[i])
         IN  IF loaded.status # "ok"
             THEN Run(loaded.status, <<>>, run.reads, t)
             ELSE (CHOOSE once \in {ChildLoop(d, t, urls, i + 1, merged) :
        merged \in {Run("ok", Merge(run.value, loaded.entry[1]), run.reads, 0)}} : TRUE)

\* children()'s outer loop over the targets, from target t on.  Deno.readDir
\* of a folder that is not on the disk fails with NotFound.
RECURSIVE TargetLoop(_, _, _, _)
TargetLoop(d, e, t, run) ==
    IF t > Len(e.targets) \/ run.status # "ok" THEN run
    ELSE LET url == e.targets[t]
         IN  IF ~HasChildren(d, e, url) THEN TargetLoop(d, e, t + 1, run)
             ELSE IF ~exists(d, url)
             THEN Run("NotFound", <<>>, run.reads, t)
             ELSE (CHOOSE once \in {TargetLoop(d, e, t + 1, listed_) :
        listed_ \in {ChildLoop(d, t, directoryEntries(d, url), 1,
                                 Run("ok", run.value, Append(run.reads, url), 0))}} : TRUE)

\* Entry.children(): status "ok" with the merged entries, or the error and
\* the index of the target at which it was raised; reads are the folders listed
children(d, e) == TargetLoop(d, e, 1, Run("ok", <<>>, <<>>, 0))

(***************************************************************************)
(* satellite.ts: the Primary wrapping cur                                  *)
(***************************************************************************)
\* Mutant of entryChildren: the memoized array is not looked at
entryChildrenNoMemo(d, e, cache) ==
    LET run == children(d, e)
    IN  [status |-> run.status, value |-> run.value, reads |-> run.reads,
         cache |-> IF run.status = "ok" THEN Some(run.value) ELSE None]

\* Primary.entryChildren(): the memoized array when there is one, else
\* entry.children(), memoized when it succeeds
entryChildren(d, e, cache) ==
    IF cache # None
    THEN [status |-> "ok", value |-> cache[1], reads |-> <<>>, cache |-> cache]
    ELSE (CHOOSE once \in {[status |-> run.status, value |-> run.value, reads |-> run.reads,
                   cache |-> IF run.status = "ok" THEN Some(run.value) ELSE None] :
        run \in {children(d, e)}} : TRUE)

(***************************************************************************)
(* Regular expressions, as media.ts uses them: a pattern is a tree, and    *)
(* Match gives the ways it can match at a position in the order the        *)
(* backtracking matcher of RegExp.prototype.exec tries them, so that the   *)
(* first way that reaches the end is the match exec reports.               *)
(***************************************************************************)
UpperCase == <<"A", "B", "C", "D", "E", "F", "G", "H", "I", "J", "K", "L", "M",
               "N", "O", "P", "Q", "R", "S", "T", "U", "V", "W", "X", "Y", "Z">>
LowerCase == <<"a", "b", "c", "d", "e", "f", "g", "h", "i", "j", "k", "l", "m",
               "n", "o", "p", "q", "r", "s", "t", "u", "v", "w", "x", "y", "z">>

\* Canonicalize under the "i" flag
Fold(c) ==
    IF \E i \in 1..26 : UpperCase[i] = c
    THEN LowerCase[CHOOSE i \in 1..26 : UpperCase[i] = c]
    ELSE c

NBSP == "nbsp"
IsDigit(c) == c \in {"0", "1", "2", "3", "4", "5", "6", "7", "8", "9"}
IsSpace(c) == c \in {" ", "\t", "\n", "\r", NBSP}
IsLineTerminator(c) == c \in {"\n", "\r"}

InClass(k, c) ==
    CASE k = "d" -> IsDigit(c)                     \* \d
      [] k = "D" -> ~IsDigit(c)                    \* \D
      [] k = "S" -> ~IsSpace(c)                    \* \S
      [] k = "ws" -> IsSpace(c) /\ c # NBSP        \* [^\S ]
      [] k = "s" -> IsSpace(c)                     \* \s
      [] k = "any" -> ~IsLineTerminator(c)         \* .

Chr(c) == [t |-> "chr", c |-> c]
Cls(k) == [t |-> "cls", k |-> k]
Cat(xs) == [t |-> "cat", xs |-> xs]
Alt(xs) == [t |-> "alt", xs |-> xs]
Rep(x, lo, hi) == [t |-> "rep", x |-> x, lo |-> lo, hi |-> hi]
Cap(n, x) == [t |-> "cap", n |-> n, x |-> x]
Ahead(x) == [t |-> "ahead", x |-> x]
End == [t |-> "end"]
Begin == [t |-> "begin"]
Str(cs) == Cat([i \in 1..Len(cs) |-> Chr(cs[i])])

NoCaptures == [n \in {} |-> <<>>]
At(pos, caps) == [pos |-> pos, caps |-> caps]

RECURSIVE Match(_, _, _), MatchCat(_, _, _, _), MatchAlt(_, _, _, _),
          MatchRep(_, _, _, _), Each(_, _, _, _, _, _)

\* The concatenation, over the states sts[lo..hi] in their order, of the ways
\* each is continued; kind says how a state is continued
Each(kind, arg, text, sts, lo, hi) ==
    IF lo > hi THEN <<>>
    ELSE IF lo = hi
    THEN CASE kind = "cat" -> MatchCat(arg.xs, arg.i, text, sts[lo])
           [] kind = "rep" -> MatchRep(arg.re, text, sts[lo], arg.n)
           [] kind = "cap" -> <<At(sts[lo].pos,
                                   (arg.n :> SubSeq(text, arg.from, sts[lo].pos - 1))
                                       @@ sts[lo].caps)>>
    ELSE LET mid == (lo + hi) \div 2
         IN  Each(kind, arg, text, sts, lo, mid) \o Each(kind, arg, text, sts, mid + 1, hi)

\* One character against a literal or a class
MatchOne(x, c) ==
    IF x.t = "chr" THEN Fold(c) = Fold(x.c) ELSE InClass(x.k, c)

\* A greedy x{lo,hi} of a one-character x: the longest run first, then each
\* shorter one down to lo
MatchRun(re, text, st) ==
    LET most == IF Len(text) - st.pos + 1 < re.hi THEN Len(text) - st.pos + 1 ELSE re.hi
        runs == {j \in 0..most : \A m \in 0..(j - 1) : MatchOne(re.x, text[st.pos + m])}
        k == CHOOSE j \in runs : \A j2 \in runs : j2 <= j
    IN  IF k < re.lo THEN <<>>
        ELSE [i \in 1..(k - re.lo + 1) |-> At(st.pos + k - (i - 1), st.caps)]

\* xs[i..] one after the other
MatchCat(xs, i, text, st) ==
    IF i > Len(xs) THEN <<st>>
    ELSE LET sts == Match(xs[i], text, st)
         IN  Each("cat", [xs |-> xs, i |-> i + 1], text, sts, 1, Len(sts))

\* xs[i..] as alternatives, the earlier preferred
MatchAlt(xs, i, text, st) ==
    IF i > Len(xs) THEN <<>>
    ELSE Match(xs[i], text, st) \o MatchAlt(xs, i + 1, text, st)

\* A greedy x{lo,hi} of which n repetitions are done
MatchRep(re, text, st, n) ==
    (IF n < re.hi
     THEN LET sts == SelectSeq(Match(re.x, text, st), LAMBDA s : s.pos > st.pos)
          IN  Each("rep", [re |-> re, n |-> n + 1], text, sts, 1, Len(sts))
     ELSE <<>>)
    \o (IF n >= re.lo THEN <<st>> ELSE <<>>)

Match(re, text, st) ==
    CASE re.t \in {"chr", "cls"} ->
            IF st.pos <= Len(text) /\ MatchOne(re, text[st.pos])
            THEN <<At(st.pos + 1, st.caps)>> ELSE <<>>
      [] re.t = "cat" -> MatchCat(re.xs, 1, text, st)
      [] re.t = "alt" -> MatchAlt(re.xs, 1, text, st)
      [] re.t = "rep" -> IF re.x.t \in {"chr", "cls"} THEN MatchRun(re, text, st)
                         ELSE MatchRep(re, text, st, 0)
      [] re.t = "cap" ->
            LET sts == Match(re.x, text, st)
            IN  Each("cap", [n |-> re.n, from |-> st.pos], text, sts, 1, Len(sts))
      [] re.t = "ahead" -> IF Match(re.x, text, st) # <<>> THEN <<st>> ELSE <<>>
      [] re.t = "end" -> IF st.pos = Len(text) + 1 THEN <<st>> ELSE <<>>
      [] re.t = "begin" -> IF st.pos = 1 THEN <<st>> ELSE <<>>

\* possible.exec(text) of a pattern anchored at the start: None when there is
\* no match, else Some(the named groups that took part in the match)
Exec(possible, text) ==
    LET ways == Match(possible, text, At(1, NoCaptures))
    IN  IF ways = <<>> THEN None ELSE Some(ways[1].caps)

(***************************************************************************)
(* media.ts: the filename grammar                                          *)
(***************************************************************************)
ws == Rep(Cls("ws"), 1, 4)

\* re(...patterns): anchored, leading and trailing whitespace ignored
re(patterns) == Cat(<<Begin, Rep(ws, 0, 1)>> \o patterns \o <<Rep(ws, 0, 1), End>>)

opt(patterns) == IF Len(patterns) = 1 THEN Rep(patterns[1], 0, 1) ELSE Rep(Cat(patterns), 0, 1)
grp(patterns) == Cat(patterns)
alt(patterns) == IF Len(patterns) = 1 THEN patterns[1] ELSE Alt(patterns)
cap(name, patterns) == Cap(name, Cat(patterns))

period == Chr(".")
leftParen == Chr("(")
rightParen == Chr(")")
dash == Chr("-")

separator == grp(<<ws, dash, ws>>)

chapter == alt(<<Str(<<"C", "h", "a", "p", "t", "e", "r">>),
                 Cat(<<Str(<<"C", "h">>), Rep(Chr("."), 0, 1)>>),
                 Str(<<"C">>)>>)
season == alt(<<Str(<<"S", "e", "r", "i", "e", "s">>),
                Str(<<"S", "e", "a", "s", "o", "n">>),
                Str(<<"S">>)>>)
episode == alt(<<Str(<<"E", "p", "i", "s", "o", "d", "e">>),
                 Cat(<<Str(<<"E", "p">>), Rep(Chr("."), 0, 1)>>),
                 Str(<<"E">>)>>)
track == alt(<<Str(<<"T", "r", "a", "c", "k">>)>>)

digits(count) == Rep(Cls("d"), count, count)
phrase == Cat(<<Rep(Cls("any"), 0, 128), Cls("S")>>)
number(capture) ==
    grp(<<Rep(Chr("0"), 0, 4),
          cap(capture, <<Rep(Cls("d"), 1, 4), Ahead(Alt(<<Cls("D"), End>>))>>)>>)

numberSeparator == alt(<<separator, grp(<<period, ws>>), ws>>)

OneOf(cs) == Alt([i \in 1..Len(cs) |-> Chr(cs[i])])
dd == alt(<<Cat(<<Chr("0"), OneOf(<<"1", "2", "3", "4", "5", "6", "7", "8", "9">>)>>),
            Cat(<<Chr("1"), Cls("d")>>),
            Cat(<<Chr("2"), Cls("d")>>),
            Cat(<<Chr("3"), OneOf(<<"0", "1">>)>>)>>)
mm == alt(<<Cat(<<Chr("0"), OneOf(<<"1", "2", "3", "4", "5", "6", "7", "8", "9">>)>>),
            Cat(<<Chr("1"), OneOf(<<"0", "1", "2">>)>>)>>)
yyyy == digits(4)

dateSeparator == alt(<<dash, period>>)

yearOrDate ==
    grp(<<cap("year", <<yyyy>>),
          opt(<<dateSeparator, cap("month", <<mm>>), dateSeparator, cap("day", <<dd>>)>>)>>)

group == phrase

subgroupNumber == number("subgroupNumber")

toWord == alt(<<Str(<<"t", "o">>), Str(<<"-", "t", "o", "-">>)>>)

plexNumber ==
    grp(<<season, subgroupNumber, episode, number("number"),
          opt(<<opt(<<dash>>), episode, number("endNumber")>>)>>)

twoPartNumber ==
    grp(<<subgroupNumber, alt(<<dash, Chr("x")>>),
          number("number"),
          opt(<<opt(<<toWord>>), number("endNumber")>>)>>)

itemNumber ==
    grp(<<opt(<<subgroupNumber, alt(<<dash, Chr("x")>>)>>),
          number("number"),
          opt(<<opt(<<toWord>>), number("endNumber")>>)>>)

subgroup ==
    alt(<<grp(<<alt(<<season, chapter>>), ws, number("numberFromSubgroupName")>>), phrase>>)

name ==
    alt(<<grp(<<alt(<<episode, track, chapter>>), ws, number("numberFromName"),
                opt(<<period, ws, phrase>>)>>),
          grp(<<cap("datelessName", <<phrase>>), ws, leftParen, yearOrDate, rightParen>>),
          phrase>>)

datelessName ==
    alt(<<grp(<<alt(<<episode, track, chapter>>), ws, number("numberFromName")>>), phrase>>)

standardDataExtractors ==
    << re(<<cap("group", <<group>>), separator,            \* Date TV format
            yearOrDate, alt(<<separator, ws>>),
            opt(<<itemNumber, numberSeparator>>),
            cap("name", <<datelessName>>)>>),
       re(<<cap("group", <<group>>), separator,
            cap("subgroup", <<subgroup>>), separator,
            itemNumber, numberSeparator,
            cap("name", <<name>>)>>),
       re(<<opt(<<cap("group", <<group>>), separator>>),   \* Plex TV format
            plexNumber,
            opt(<<separator, cap("name", <<name>>)>>)>>),
       re(<<opt(<<cap("group", <<group>>), separator>>),   \* Preferred TV format
            twoPartNumber,
            opt(<<numberSeparator, cap("name", <<name>>)>>)>>),
       re(<<cap("group", <<group>>), separator,
            cap("subgroup", <<subgroup>>), separator,
            cap("name", <<name>>)>>),
       re(<<cap("group", <<group>>), separator,
            itemNumber, numberSeparator,
            cap("name", <<name>>)>>),
       re(<<cap("group", <<group>>), separator,
            cap("name", <<name>>)>>),
       re(<<itemNumber, numberSeparator,                   \* Audio format
            cap("name", <<name>>)>>),
       re(<<cap("name", <<name>>)>>) >>

\* The loop without its break: the last extractor that matches is kept
RECURSIVE ParseLoopNoBreak(_, _, _)
ParseLoopNoBreak(text_, possibles, i) ==
    IF i > Len(possibles) THEN [index |-> 0, groups |-> NoCaptures]
    ELSE LET later == ParseLoopNoBreak(text_, possibles, i + 1)
             found == Exec(possibles[i], text_)
         IN  IF later.index # 0 \/ found = None THEN later
             ELSE [index |-> i, groups |-> found[1]]

\* parseData's loop from extractor i on: the first extractor that matches
\* ends it.  [index, groups]: index 0 and no groups when none matches
RECURSIVE ParseLoop(_, _, _)
ParseLoop(text, possibles, i) ==
    IF i > Len(possibles) THEN [index |-> 0, groups |-> NoCaptures]
    ELSE LET match == Exec(possibles[i], text)
         IN  IF match # None THEN [index |-> i, groups |-> match[1]]
             ELSE ParseLoop(text, possibles, i + 1)

\* parseData(text, possibles): the named groups of the match, the undefined
\* ones deleted.  index (history) is the place of the extractor that matched.
parseData(text, possibles) == ParseLoop(text, possibles, 1)

(***************************************************************************)
(* media.ts: Data records.  A record is a function from the names of its   *)
(* defined attributes to their text                                        *)
(***************************************************************************)
Has(d, k) == k \in DOMAIN d
Truthy(d, k) == Has(d, k) /\ d[k] # <<>>
With(d, k, v) == [x \in DOMAIN d \cup {k} |-> IF x = k THEN v ELSE d[x]]

\* The record of the attributes that are defined in fields
Data(fields) ==
    [k \in {x \in DOMAIN fields : fields[x] # None} |-> fields[k][1]]

SeparatorText == <<" ", "-", " ">>
SeasonText == <<"S", "e", "a", "s", "o", "n", " ">>
SeriesText == <<"S", "e", "r", "i", "e", "s", " ">>
UndefinedText == <<"u", "n", "d", "e", "f", "i", "n", "e", "d">>
Y2005 == <<"2", "0", "0", "5">>

\* s.padStart(targetLength, padString) for a padString of one character
padStart(s, targetLength, padString) ==
    IF Len(s) >= targetLength THEN s
    ELSE [i \in 1..targetLength |->
            IF i <= targetLength - Len(s) THEN padString
            ELSE s[i - (targetLength - Len(s))]]

\* `${v}` of an optional text
Interpolate(v) == IF v = None THEN UndefinedText ELSE v[1]

standardFilename(d) ==
    LET groupPart == IF Has(d, "group") /\ d["group"] # <<>>
                     THEN d["group"] \o SeparatorText ELSE <<>>
        \* data.subgroupNumber || data.numberFromSubgroupName
        seasonNumber ==
            IF Truthy(d, "subgroupNumber") THEN Some(d["subgroupNumber"])
            ELSE IF Has(d, "numberFromSubgroupName")
                 THEN Some(d["numberFromSubgroupName"]) ELSE None
        subgroupPart ==
            IF ~Has(d, "subgroup") THEN <<>>
            ELSE IF /\ Has(d, "number")
                    /\ \/ d["subgroup"] = SeasonText \o Interpolate(seasonNumber)
                       \/ d["subgroup"] = SeriesText \o Interpolate(seasonNumber)
                 THEN <<>>
                 ELSE d["subgroup"] \o SeparatorText
        date ==
            IF ~Has(d, "year") THEN <<>>
            ELSE IF Has(d, "month") /\ Has(d, "day")
                 THEN d["year"] \o <<"-">> \o d["month"] \o <<"-">> \o d["day"]
                 ELSE d["year"]
        parenthetical ==
            IF date # <<>> /\ ~Has(d, "group")
            THEN <<" ", "(">> \o date \o <<")">> ELSE <<>>
        datePart ==
            IF date # <<>> /\ Has(d, "group") THEN date \o SeparatorText ELSE <<>>
        numbers ==
            IF seasonNumber # None /\ seasonNumber # Some(<<>>) /\ Truthy(d, "number")
            THEN padStart(seasonNumber[1], 2, "0") \o <<"-">> \o padStart(d["number"], 2, "0")
            ELSE IF Truthy(d, "number") THEN padStart(d["number"], 2, "0") ELSE <<>>
        withEnd ==
            IF Truthy(d, "endNumber")
            THEN numbers \o <<"-", "t", "o", "-">> \o padStart(d["endNumber"], 2, "0")
            ELSE numbers
        numbersPart == IF withEnd # <<>> THEN withEnd \o <<" ">> ELSE <<>>
        namePart == IF Truthy(d, "datelessName") THEN d["datelessName"]
                    ELSE IF Truthy(d, "name") THEN d["name"] ELSE <<>>
    IN  groupPart \o subgroupPart \o datePart \o numbersPart \o namePart \o parenthetical

(***************************************************************************)
(* media.ts: MediaPrimary.info.  A file is [name, extension, isFolder,     *)
(* folders], folders being the names of the folders above it, the root's   *)
(* first                                                                   *)
(***************************************************************************)
AUDIO_EXTENSIONS == {<<"m", "4", "a">>, <<"m", "p", "3">>}

\* text.replace(/[_\s]+/g, " ")
cleanup(text_) ==
    LET blank(i) == text_[i] = "_" \/ IsSpace(text_[i])
        kept == SelectSeq([i \in 1..Len(text_) |-> i],
                          LAMBDA i : ~(blank(i) /\ i > 1 /\ blank(i - 1)))
    IN  [j \in 1..Len(kept) |-> IF blank(kept[j]) THEN " " ELSE text_[kept[j]]]

\* Mutant of GroupFromFolders: the group is always the parent's name
GroupFromFoldersParent(result, folders) ==
    IF Has(result, "group") \/ Len(folders) = 0 THEN result
    ELSE With(result, "group", folders[Len(folders)])

\* The fallback of the group, and with it of the subgroup, on the folders
GroupFromFolders(result, folders) ==
    LET n == Len(folders)
    IN  IF Has(result, "group") \/ n = 0 THEN result
        ELSE IF n >= 3       \* a grandparent that is not the root
        THEN LET grouped == With(result, "group", folders[n - 1])
             IN  IF Has(grouped, "subgroup") THEN grouped
                 ELSE With(grouped, "subgroup", folders[n])
        ELSE With(result, "group", folders[n])

Cleaned(result, k) ==
    IF Has(result, k) THEN With(result, k, cleanup(result[k])) ELSE result

Fallback(result, k, from) ==
    IF ~Has(result, k) /\ Has(result, from) THEN With(result, k, result[from]) ELSE result

\* Mutant of SubgroupFallback: no subgroup is made from the subgroupNumber
SubgroupFallbackYearOnly(result) ==
    IF Has(result, "subgroup") THEN result
    ELSE IF Has(result, "year") /\ ~Has(result, "subgroupNumber")
    THEN With(result, "subgroup", result["year"])
    ELSE result

SubgroupFallback(result) ==
    IF Has(result, "subgroup") THEN result
    ELSE IF Has(result, "subgroupNumber")
    THEN With(result, "subgroup", SeasonText \o result["subgroupNumber"])
    ELSE IF Has(result, "year") THEN With(result, "subgroup", result["year"])
    ELSE result

generatedName(result, f) ==
    IF Truthy(result, "number")
    THEN Some((IF f.extension # None /\ f.extension[1] \in AUDIO_EXTENSIONS
               THEN <<"T", "r", "a", "c", "k">>
               ELSE <<"E", "p", "i", "s", "o", "d", "e">>)
              \o <<" ">> \o result["number"])
    ELSE None

NameFallback(result, f) ==
    IF Has(result, "name") THEN result
    ELSE With(result, "name",
              IF generatedName(result, f) # None /\ generatedName(result, f) # Some(<<>>)
              THEN generatedName(result, f)[1] ELSE f.name)

DatelessNameFallback(result) ==
    IF Has(result, "datelessName") THEN Cleaned(result, "datelessName")
    ELSE With(result, "datelessName", result["name"])

\* The getter: [value, cache], cache being info_ afterwards
info(f, cache) ==
    IF f.isFolder THEN [value |-> NoCaptures, cache |-> cache]
    ELSE IF cache # None THEN [value |-> cache[1], cache |-> cache]
    ELSE (CHOOSE once \in {(CHOOSE once \in {(CHOOSE once \in {(CHOOSE once \in {(CHOOSE once \in {(CHOOSE once \in {(CHOOSE once \in {[value |-> result, cache |-> Some(result)] :
        result \in {DatelessNameFallback(named)}} : TRUE) :
        named \in {Cleaned(NameFallback(numbered, f), "name")}} : TRUE) :
        numbered \in {Fallback(subgrouped, "number", "numberFromName")}} : TRUE) :
        subgrouped \in {Cleaned(SubgroupFallback(seasoned), "subgroup")}} : TRUE) :
        seasoned \in {Fallback(grouped, "subgroupNumber", "numberFromSubgroupName")}} : TRUE) :
        grouped \in {Cleaned(GroupFromFolders(captured, f.folders), "group")}} : TRUE) :
        captured \in {parseData(f.name, standardDataExtractors).groups}} : TRUE)

(***************************************************************************)
(* utility.ts: names for sorting and for URLs.  The names explored are     *)
(* made of ASCII characters: the replacements of northern European letters *)
(* and of diacritics, which leave such names alone, are not written out.   *)
(***************************************************************************)
\* s.toLowerCase()
toLowerCase(s) == [i \in 1..Len(s) |-> Fold(s[i])]

IsLetter(c) == \E i \in 1..26 : UpperCase[i] = c \/ LowerCase[i] = c

\* The punctuation that toSortableName and toURLName replace, as far as ASCII
\* goes and but for the backquote, which no name explored holds
IsPunctuation(c) ==
    c \in {"\\", "'", "!", "\"", "#", "$", "%", "&", "(", ")", "*", "+", ",", "/", ":", ";",
           "<", "=", ">", "?", "@", "[", "]", "^", "_", "{", "|", "}", "~"}

\* The first eight characters that are not a letter, a digit, a period, a space,
\* an apostrophe or a dash
symbolsOf(s) ==
    LET kept == SelectSeq(s, LAMBDA c : ~(IsLetter(c) \/ IsDigit(c) \/ c \in {".", " ", "'", "-"}))
    IN  SubSeq(kept, 1, IF Len(kept) < 8 THEN Len(kept) ELSE 8)

\* s.replace(/ & /g, " and "), from the i-th character on
RECURSIVE ampersandFrom(_, _)
ampersandFrom(s, i) ==
    IF i > Len(s) THEN <<>>
    ELSE IF i + 2 <= Len(s) /\ SubSeq(s, i, i + 2) = <<" ", "&", " ">>
    THEN <<" ", "a", "n", "d", " ">> \o ampersandFrom(s, i + 3)
    ELSE <<s[i]>> \o ampersandFrom(s, i + 1)

ampersand(s) == CHOOSE once \in {ampersandFrom(text_, 1) : text_ \in {s}} : TRUE

\* s.trim()
trim(s) ==
    IF \A i \in 1..Len(s) : IsSpace(s[i]) THEN <<>>
    ELSE SubSeq(s, CHOOSE i \in 1..Len(s) : ~IsSpace(s[i]) /\ \A j \in 1..(i - 1) : IsSpace(s[j]),
                   CHOOSE i \in 1..Len(s) : ~IsSpace(s[i]) /\ \A j \in (i + 1)..Len(s) : IsSpace(s[j]))

\* s.replace(/x{2,}/g, x), x being one character
coalesce(s, x) ==
    CHOOSE once \in {[j \in 1..Len(kept) |-> s[kept[j]]] :
        kept \in {SelectSeq([i \in 1..Len(s) |-> i],
                            LAMBDA i : ~(s[i] = x /\ i > 1 /\ s[i - 1] = x))}} : TRUE

\* /^(?<article>(the)|(an?)|(l[aeo]s?)|(un[ae]?)|(un[ao]s)|(des))\s(?<body>.*)$/i
\* (.* is .{0,n} on a text of n characters)
articleRE(n) ==
    Cat(<<Begin,
          Cap("article",
              Alt(<<Str(<<"t", "h", "e">>),
                    Cat(<<Chr("a"), Rep(Chr("n"), 0, 1)>>),
                    Cat(<<Chr("l"), OneOf(<<"a", "e", "o">>), Rep(Chr("s"), 0, 1)>>),
                    Cat(<<Str(<<"u", "n">>), Rep(OneOf(<<"a", "e">>), 0, 1)>>),
                    Cat(<<Str(<<"u", "n">>), OneOf(<<"a", "o">>), Chr("s")>>),
                    Str(<<"d", "e", "s">>)>>)),
          Cls("s"),
          Cap("body", Rep(Cls("any"), 0, n)),
          End>>)

\* The article of a name goes behind its body
moveArticle(s) ==
    CHOOSE once \in {IF found = None THEN s
                     ELSE found[1]["body"] \o <<" ">> \o found[1]["article"] :
        found \in {Exec(articleRE(Len(s)), s)}} : TRUE

\* s.replace(numberRE, applyPadding), numberRE being
\* /(?<prefix>^|[^0123456789.])(?<number>\d+)/ig: a run of digits that begins
\* the text, or follows a character that is neither a digit nor a period, is
\* padded with zeroes to six digits
padNumbers(s) ==
    LET begins(i) == IsDigit(s[i]) /\ (i = 1 \/ ~(IsDigit(s[i - 1]) \/ s[i - 1] = "."))
        ends(i) == CHOOSE j \in i..Len(s) :
                       /\ \A m \in i..j : IsDigit(s[m])
                       /\ j = Len(s) \/ ~IsDigit(s[j + 1])
        zeroes(i) == IF begins(i) /\ ends(i) - i + 1 < 6 THEN 6 - (ends(i) - i + 1) ELSE 0
        piece(i) == [k \in 1..zeroes(i) |-> "0"] \o <<s[i]>>
        RECURSIVE Pieces(_)
        Pieces(i) == IF i > Len(s) THEN <<>> ELSE piece(i) \o Pieces(i + 1)
    IN  Pieces(1)

\* The punctuation above becomes spaces
spacePunctuation(s) == [i \in 1..Len(s) |-> IF IsPunctuation(s[i]) THEN " " ELSE s[i]]

\* toSortableName(name): the stages in their order, each computed once
toSortableName(s) ==
    CHOOSE once \in {
        (CHOOSE once \in {
            (CHOOSE once \in {
                (CHOOSE once \in {
                    (CHOOSE once \in {
                        toLowerCase(padded) \o <<" ">>
                            \o (IF moved = <<>> THEN <<>> ELSE <<moved[1]>>) \o symbolsOf(s) :
                        padded \in {padNumbers(moved)}} : TRUE) :
                    moved \in {CHOOSE once \in {moveArticle(spaced) :
                                   spaced \in {coalesce(trimmed, " ")}} : TRUE}} : TRUE) :
                trimmed \in {CHOOSE once \in {trim(spaced) :
                                 spaced \in {spacePunctuation(unquoted)}} : TRUE}} : TRUE) :
            unquoted \in {SelectSeq(anded, LAMBDA c : c # "'")}} : TRUE) :
        anded \in {ampersand(s)}} : TRUE

\* The punctuation above is dropped
dropPunctuation(s) == SelectSeq(s, LAMBDA c : ~IsPunctuation(c))

\* toURLName(name)
toURLName(s) ==
    CHOOSE once \in {
        (CHOOSE once \in {
            coalesce([i \in 1..Len(bare) |->
                         IF IsDigit(bare[i]) \/ \E k \in 1..26 : LowerCase[k] = bare[i]
                         THEN bare[i] ELSE "-"], "-") :
            bare \in {dropPunctuation([i \in 1..Len(anded) |->
                                          IF anded[i] = "_" THEN " " ELSE anded[i]])}} : TRUE) :
        anded \in {ampersand(toLowerCase(s))}} : TRUE

\* The place of a character in the order of the "en" collation: white space,
\* punctuation and symbols in this order, then the digits, then the letters
CollationOrder ==
    <<" ", "_", "-", ",", ";", ":", "!", "?", ".", "'", "\"", "(", ")", "[", "]", "{", "}",
      "@", "*", "/", "\\", "&", "#", "%", "^", "+", "<", "=", ">", "|", "~", "$">>

DigitOrder == <<"0", "1", "2", "3", "4", "5", "6", "7", "8", "9">>

IndexIn(order, c) == CHOOSE k \in 1..Len(order) : order[k] = c

\* The number the first n of a run of digits write
RECURSIVE ToNumber(_, _)
ToNumber(digits_, n) ==
    IF n = 0 THEN 0
    ELSE ToNumber(digits_, n - 1) * 10 + (IndexIn(DigitOrder, digits_[n]) - 1)

\* The primary collation key of a text under {numeric: true}: one pair per
\* character, and one pair for a whole run of digits, which counts as the
\* number it writes; letters count alike in both cases
CollationKey(s) ==
    LET run(i) == SubSeq(s, i, CHOOSE j \in i..Len(s) :
                                   /\ \A m \in i..j : IsDigit(s[m])
                                   /\ j = Len(s) \/ ~IsDigit(s[j + 1]))
        pair(i) == IF IsDigit(s[i])
                   THEN CHOOSE once \in {<<100, ToNumber(digits_, Len(digits_))>> :
                            digits_ \in {run(i)}} : TRUE
                   ELSE IF IsLetter(s[i]) THEN <<200 + IndexIn(LowerCase, Fold(s[i])), 0>>
                   ELSE <<IndexIn(CollationOrder, s[i]), 0>>
    IN  CHOOSE once \in {[k \in 1..Len(starts) |-> pair(starts[k])] :
            starts \in {SelectSeq([i \in 1..Len(s) |-> i],
                                  LAMBDA i : ~(IsDigit(s[i]) /\ i > 1 /\ IsDigit(s[i - 1])))}} : TRUE

\* The order of two sequences of pairs: -1, 0 or 1
CompareKeys(x, y) ==
    LET differ == {k \in 1..Len(x) : k > Len(y) \/ x[k] # y[k]}
        k == CHOOSE i \in differ : \A j \in differ : i <= j
    IN  IF differ = {} THEN (IF Len(x) = Len(y) THEN 0 ELSE -1)
        ELSE IF k > Len(y) THEN 1
        ELSE IF x[k][1] < y[k][1] \/ (x[k][1] = y[k][1] /\ x[k][2] < y[k][2]) THEN -1
        ELSE 1

\* Where the keys are equal the case decides, lower case first, at the first
\* place where the texts differ in case
CompareCase(a, b) ==
    LET differ == {k \in 1..Len(a) : k <= Len(b) /\ a[k] # b[k] /\ Fold(a[k]) = Fold(b[k])}
        k == CHOOSE i \in differ : \A j \in differ : i <= j
    IN  IF differ = {} \/ Len(a) # Len(b) THEN 0
        ELSE IF a[k] = Fold(a[k]) THEN -1 ELSE 1

\* a.localeCompare(b, "en", {numeric: true})
localeCompare(a, b) ==
    CHOOSE once \in {IF c # 0 THEN c ELSE CompareCase(a, b) :
        c \in {CHOOSE once \in {CompareKeys(x, y) :
                    x \in {CollationKey(a)}, y \in {CollationKey(b)}} : TRUE}} : TRUE

(***************************************************************************)
(* satellite.ts and media.ts: the tree of MediaPrimary objects.  An object *)
(* is known by its place: the root is at <<>>, and the k-th element of the *)
(* children_ of the object at p is at Append(p, k).  refresh() is not      *)
(* called in the tree, so a place holds one object.                        *)
(***************************************************************************)
FOLDER_NAME == <<"f", "o", "l", "d", "e", "r">>
IMAGE_EXTENSIONS == {<<"j", "p", "g">>, <<"j", "p", "e", "g">>, <<"p", "n", "g">>}
SUBTITLE_EXTENSIONS == {<<"v", "t", "t">>, <<"w", "e", "b", "v", "t", "t">>, <<"t", "t", "m", "l">>, <<"s", "r", "t">>}
DESCRIPTION_EXTENSIONS == {<<"t", "x", "t">>}
VIDEO_EXTENSIONS == {<<"m", "4", "v">>, <<"m", "p", "4">>, <<"t", "s">>}
MEDIA_EXTENSIONS == AUDIO_EXTENSIONS \cup VIDEO_EXTENSIONS

startsWith(s, prefix) == Len(s) >= Len(prefix) /\ SubSeq(s, 1, Len(prefix)) = prefix


\* Mutant of hasPrefix: what follows the prefix is not looked at
hasPrefixUnbounded(entry, prefix) == startsWith(entry.name, prefix)

hasPrefix(entry, prefix) ==
    /\ startsWith(entry.name, prefix)
    /\ \/ Len(entry.name) = Len(prefix)
       \/ entry.name[Len(prefix) + 1] = "."

\* MediaPrimary.isPrimary
isPrimary(entry) ==
    /\ entry.extension # None
    /\ entry.extension[1] # <<>>
    /\ toLowerCase(entry.extension[1]) \in MEDIA_EXTENSIONS

\* new MediaPrimary(entry, parent): the parent is told by the place
NewPrimary(entry) ==
    [entry |-> entry, entryChildren_ |-> None, children_ |-> None, info_ |-> None]

\* this.parent of the object at p
parent(p) == IF p = <<>> THEN None ELSE Some(SubSeq(p, 1, Len(p) - 1))

Returned(t, status, value) == [tree |-> t, status |-> status, value |-> value]

\* this.entryChildren() of the object at p
primaryEntryChildren(d, t, p) ==
    (CHOOSE once \in {Returned([t EXCEPT ![p].entryChildren_ = r.cache], r.status, r.value) :
        r \in {entryChildren(d, t[p].entry, t[p].entryChildren_)}} : TRUE)

\* this.children() of the object at p
primaryChildren(d, t, p) ==
    IF t[p].children_ # None THEN Returned(t, "ok", t[p].children_[1])
    ELSE (CHOOSE once \in {IF c.status # "ok" THEN Returned(c.tree, c.status, <<>>)
                  ELSE (CHOOSE once \in {Returned([q \in DOMAIN t \cup {Append(p, k) : k \in 1..Len(kept)} |->
                                             IF q = p
                                             THEN [c.tree[p] EXCEPT !.children_ =
                                                     Some([k \in 1..Len(kept) |-> Append(p, k)])]
                                             ELSE IF q \in DOMAIN t THEN c.tree[q]
                                             ELSE NewPrimary(kept[q[Len(q)]])],
                                         "ok", [k \in 1..Len(kept) |-> Append(p, k)]) :
        kept \in {SelectSeq(c.value, LAMBDA e : isFolder(e) \/ isPrimary(e))}} : TRUE) :
        c \in {primaryEntryChildren(d, t, p)}} : TRUE)

\* s.split(sep)
RECURSIVE Split(_, _)
Split(s, sep) ==
    IF \A i \in 1..Len(s) : s[i] # sep THEN <<s>>
    ELSE LET at == CHOOSE i \in 1..Len(s) : s[i] = sep /\ \A j \in 1..(i - 1) : s[j] # sep
         IN  <<SubSeq(s, 1, at - 1)>> \o Split(SubSeq(s, at + 1, Len(s)), sep)

\* new Satellite(primary, entry), primary being the object at p
NewSatellite(t, p, entry) ==
    LET prefix == IF hasPrefix(entry, t[p].entry.name) THEN t[p].entry.name ELSE FOLDER_NAME
        remainder == SubSeq(entry.name, Len(prefix) + 1, Len(entry.name))
    IN  [primary |-> p, entry |-> entry,
         tags |-> SelectSeq(Split(remainder, "."), LAMBDA x : x # <<>>)]

\* this.entryChildren() of each of the objects at places, in their order, as
\* long as they answer: [tree, status, value], value holding one listing for
\* each object that answered
RECURSIVE entryChildrenOfEach(_, _, _)
entryChildrenOfEach(d, t, places) ==
    IF places = <<>> THEN Returned(t, "ok", <<>>)
    ELSE CHOOSE once \in {
             IF first.status # "ok" THEN Returned(first.tree, first.status, <<>>)
             ELSE CHOOSE again \in {Returned(rest.tree, rest.status, <<first.value>> \o rest.value) :
                      rest \in {entryChildrenOfEach(d, first.tree, Tail(places))}} : TRUE :
             first \in {primaryEntryChildren(d, t, places[1])}} : TRUE

\* this.satellites() of the object at p: the parent, if there is one, is
\* asked for its entries, then the object itself if it is a folder
satellites(d, t, p) ==
    LET self == t[p].entry
        above == IF parent(p) # None THEN <<parent(p)[1]>> ELSE <<>>
        below == IF isFolder(self) THEN <<p>> ELSE <<>>
        SiblingSatellites(entries) ==
            SelectSeq(entries,
                      LAMBDA e : ~isFolder(e) /\ e # self /\ hasPrefix(e, self.name))
        ChildSatellites(entries) ==
            SelectSeq(entries,
                      LAMBDA e : /\ ~isFolder(e)
                                 /\ e # self
                                 /\ hasPrefix(e, self.name) \/ hasPrefix(e, FOLDER_NAME))
    IN  CHOOSE once \in {
            IF asked.status # "ok" THEN Returned(asked.tree, asked.status, <<>>)
            ELSE CHOOSE again \in {
                     Returned(asked.tree, "ok",
                              [i \in 1..Len(found) |-> NewSatellite(t, p, found[i])]) :
                     found \in {(IF above # <<>> THEN SiblingSatellites(asked.value[1])
                                 ELSE <<>>)
                                \o (IF below # <<>>
                                    THEN ChildSatellites(asked.value[Len(asked.value)])
                                    ELSE <<>>)}} : TRUE :
            asked \in {entryChildrenOfEach(d, t, above \o below)}} : TRUE

\* The object at p as its info getter reads it: its names, and those of the
\* folders from the root down to its parent
AsFile(t, p) ==
    [name |-> t[p].entry.name, extension |-> t[p].entry.extension,
     isFolder |-> isFolder(t[p].entry),
     folders |-> [k \in 1..Len(p) |-> t[SubSeq(p, 1, k - 1)].entry.name]]

\* this.info of the object at p: [value, cache]
primaryInfo(t, p) == info(AsFile(t, p), t[p].info_)

\* The tree after the object at p has answered this.info
Informed(t, p) == [t EXCEPT ![p].info_ = primaryInfo(t, p).cache]

\* this.info of an object that has answered this.info before: what info_
\* holds (a folder holds nothing, and has no captures)
knownInfo(t, p) == IF t[p].info_ = None THEN NoCaptures ELSE t[p].info_[1]

grandParent(p) == IF Len(p) >= 2 THEN Some(SubSeq(p, 1, Len(p) - 2)) ELSE None

\* this.groupFolder of the object at p: a place, or None.  The folder getters
\* are asked of objects that have answered this.info
groupFolder(t, p) ==
    LET i == knownInfo(t, p)
    IN  IF Has(i, "group") /\ parent(p) # None
        THEN IF grandParent(p) # None /\ t[grandParent(p)[1]].entry.name = i["group"]
             THEN grandParent(p)
             ELSE IF t[parent(p)[1]].entry.name = i["group"] THEN parent(p)
             ELSE None
        ELSE None

\* Mutant of subgroupFolder: the grandparent is not looked at
subgroupFolderByName(t, p) ==
    LET i == knownInfo(t, p)
    IN  IF Has(i, "subgroup") /\ parent(p) # None /\ grandParent(p) # None
        THEN IF t[parent(p)[1]].entry.name = i["subgroup"] THEN parent(p) ELSE None
        ELSE None

\* this.subgroupFolder
subgroupFolder(t, p) ==
    LET i == knownInfo(t, p)
    IN  IF Has(i, "subgroup") /\ parent(p) # None /\ grandParent(p) # None
        THEN IF t[parent(p)[1]].entry.name = i["subgroup"] /\ grandParent(p) = groupFolder(t, p)
             THEN parent(p)
             ELSE None
        ELSE None

\* this.containerFolder
containerFolder(t, p) ==
    IF parent(p) # groupFolder(t, p) /\ parent(p) # subgroupFolder(t, p)
    THEN parent(p)
    ELSE None

\* Mutant of contextFolder: the group folder goes first
contextFolderGroupFirst(t, p) ==
    IF groupFolder(t, p) # None THEN groupFolder(t, p)
    ELSE IF subgroupFolder(t, p) # None THEN subgroupFolder(t, p)
    ELSE containerFolder(t, p)

\* this.contextFolder
contextFolder(t, p) ==
    IF containerFolder(t, p) # None THEN containerFolder(t, p)
    ELSE IF subgroupFolder(t, p) # None THEN subgroupFolder(t, p)
    ELSE groupFolder(t, p)

\* this.getSatellites(extensions)
getSatellites(d, t, p, extensions) ==
    (CHOOSE once \in {Returned(r.tree, r.status,
                      SelectSeq(r.value,
                                LAMBDA s : /\ s.entry.extension # None
                                           /\ s.entry.extension[1] # <<>>
                                           /\ toLowerCase(s.entry.extension[1]) \in extensions)) :
        r \in {satellites(d, t, p)}} : TRUE)

\* Mutant of findSatellitesLikeFolder: the parent's satellites are not
\* filtered by tag
findSatellitesLikeFolderAnyTag(d, t, p, extensions) ==
    LET own == getSatellites(d, t, p, extensions)
    IN  IF own.status # "ok" \/ Len(own.value) > 0 \/ parent(p) = None THEN own
        ELSE getSatellites(d, own.tree, parent(p)[1], extensions)

\* this.findSatellitesLikeFolder(extensions)
findSatellitesLikeFolder(d, t, p, extensions) ==
    (CHOOSE once \in {IF own.status # "ok" \/ Len(own.value) > 0 \/ parent(p) = None THEN own
             ELSE (CHOOSE once \in {Returned(above.tree, above.status,
                                    SelectSeq(above.value,
                                              LAMBDA s : \E k \in 1..Len(s.tags) :
                                                             s.tags[k] = t[p].entry.name)) :
        above \in {getSatellites(d, own.tree, parent(p)[1], extensions)}} : TRUE) :
        own \in {getSatellites(d, t, p, extensions)}} : TRUE)

\* folder.findSatellites(extensions) as findSatellitesLikeFile calls it, the
\* folder being the parent or the grandparent of a file: an object that has
\* children is a folder, and findSatellites goes on as for a folder
findSatellitesAbove(d, t, p, extensions) == findSatellitesLikeFolder(d, t, p, extensions)

\* Mutant of findSatellitesLikeFile: the group folder is asked before the
\* subgroup folder
findSatellitesLikeFileGroupFirst(d, t, p, extensions) ==
    LET Ask(before, folder) ==
            IF before.status # "ok" \/ Len(before.value) > 0 \/ folder = None THEN before
            ELSE findSatellitesAbove(d, before.tree, folder[1], extensions)
    IN  (CHOOSE once \in {IF own.status # "ok" \/ Len(own.value) > 0 THEN own
                 ELSE (CHOOSE once \in {(CHOOSE once \in {(CHOOSE once \in {Ask(second, containerFolder(told.tree, p)) :
        second \in {Ask(first, subgroupFolder(told.tree, p))}} : TRUE) :
        first \in {Ask(told, groupFolder(told.tree, p))}} : TRUE) :
        told \in {Returned(Informed(own.tree, p), "ok", <<>>)}} : TRUE) :
        own \in {getSatellites(d, t, p, extensions)}} : TRUE)

\* this.findSatellitesLikeFile(extensions): the object itself, then its
\* subgroup folder, its group folder and its container folder are asked, until
\* one has satellites to return
findSatellitesLikeFile(d, t, p, extensions) ==
    LET Ask(before, folder) ==
            IF before.status # "ok" \/ Len(before.value) > 0 \/ folder = None THEN before
            ELSE findSatellitesAbove(d, before.tree, folder[1], extensions)
    IN  (CHOOSE once \in {IF own.status # "ok" \/ Len(own.value) > 0 THEN own
                 ELSE (CHOOSE once \in {(CHOOSE once \in {(CHOOSE once \in {Ask(second, containerFolder(told.tree, p)) :
        second \in {Ask(first, groupFolder(told.tree, p))}} : TRUE) :
        first \in {Ask(told, subgroupFolder(told.tree, p))}} : TRUE) :
        told \in {Returned(Informed(own.tree, p), "ok", <<>>)}} : TRUE) :
        own \in {getSatellites(d, t, p, extensions)}} : TRUE)

\* this.findSatellites(extensions)
findSatellites(d, t, p, extensions) ==
    IF isFolder(t[p].entry) THEN findSatellitesLikeFolder(d, t, p, extensions)
    ELSE findSatellitesLikeFile(d, t, p, extensions)

\* this.images()
images(d, t, p) == findSatellites(d, t, p, IMAGE_EXTENSIONS)

\* this.standardName and this.sortableName of the object at p, whose info_ is
\* filled (the memos standardName_ and sortableName_ are not written out: they
\* hold what these give)
standardName(t, p) == standardFilename(knownInfo(t, p))

sortableName(t, p) ==
    CHOOSE once \in {toSortableName(standard) : standard \in {standardName(t, p)}} : TRUE

\* Mutant of Grouped: the folders are not passed over
GroupedWithFolders(t, primaries) == primaries

\* The primaries getMediaGroups puts into groups: those that are not folders
Grouped(t, primaries) == SelectSeq(primaries, LAMBDA q : ~isFolder(t[q].entry))

\* What getMediaGroups reads of the file at p
FileFacts(t, p) ==
    [at |-> p,
     context |-> contextFolder(t, p),
     inSubgroup |-> contextFolder(t, p) = subgroupFolder(t, p),
     contained |-> containerFolder(t, p) # None,
     sortableName |-> sortableName(t, p),
     subgroup |-> IF Truthy(knownInfo(t, p), "subgroup")
                  THEN knownInfo(t, p)["subgroup"] ELSE <<>>]

\* Mutant of compareFiles: the names alone decide
compareFilesByName(a, b) == localeCompare(a.sortableName, b.sortableName)

\* The comparison group.files is sorted with
compareFiles(a, b) ==
    IF ~a.contained /\ b.contained THEN -1
    ELSE IF a.contained /\ ~b.contained THEN 1
    ELSE localeCompare(a.sortableName, b.sortableName)

\* Array.prototype.sort: the items in the order of the comparison, those it
\* holds equal in the order they had
Sorted(items, Compare(_, _)) ==
    LET before(i, j) == CHOOSE once \in {c < 0 \/ (c = 0 /\ i < j) :
                            c \in {Compare(items[i], items[j])}} : TRUE
        rank(i) == Cardinality({j \in 1..Len(items) : j # i /\ before(j, i)}) + 1
    IN  CHOOSE once \in {[k \in 1..Len(items) |-> items[CHOOSE i \in 1..Len(items) : ranks[i] = k]] :
            ranks \in {[i \in 1..Len(items) |-> rank(i)]}} : TRUE

\* [...new Set(values)]: the values without repeats, in the order they come first
Distinct(values) ==
    LET kept == SelectSeq([i \in 1..Len(values) |-> i],
                          LAMBDA i : \A j \in 1..(i - 1) : values[j] # values[i])
    IN  [k \in 1..Len(kept) |-> values[kept[k]]]

\* Mutant of FirstFilled: the last of the sequences that holds something
LastFilled(found) ==
    IF \A i \in 1..Len(found) : found[i] = <<>> THEN <<>>
    ELSE found[CHOOSE i \in 1..Len(found) :
                   found[i] # <<>> /\ \A j \in (i + 1)..Len(found) : found[j] = <<>>]

\* first(items, testAndMap) with a test for a sequence that is not empty:
\* the first of the sequences that holds something, or none
FirstFilled(found) ==
    IF \A i \in 1..Len(found) : found[i] = <<>> THEN <<>>
    ELSE found[CHOOSE i \in 1..Len(found) :
                   found[i] # <<>> /\ \A j \in 1..(i - 1) : found[j] = <<>>]

\* Mutant of isSubgroup: the file that made the group decides
isSubgroupOfFirst(facts) == facts[1].inSubgroup

\* group.isSubgroup once every file of the group has been pushed
isSubgroup(facts) == \E k \in 1..Len(facts) : facts[k].inSubgroup

\* One group of getMediaGroups: facts are those of its files as they came in.
\* shown holds the images() of the folder and then of each of the files in
\* their sorted order: images() finds every listing and every info_ it reads
\* memoized, so asking a file that first() does not reach changes nothing
MediaGroup(d, t, facts) ==
    CHOOSE once \in {
        [name |-> IF isSubgroup_
                  THEN t[parent(folder)[1]].entry.name \o <<" ", "-", " ">> \o t[folder].entry.name
                  ELSE t[folder].entry.name,
         sortableName |-> toSortableName(
                  IF isSubgroup_
                  THEN t[parent(folder)[1]].entry.name \o <<" ", "-", " ">> \o t[folder].entry.name
                  ELSE t[folder].entry.name),
         urlName |-> toURLName(
                  IF isSubgroup_
                  THEN t[parent(folder)[1]].entry.name \o <<" ", "-", " ">> \o t[folder].entry.name
                  ELSE t[folder].entry.name),
         group |-> IF isSubgroup_ THEN t[parent(folder)[1]].entry.name ELSE t[folder].entry.name,
         images |-> shown[1],
         imagesFromFirstFile |-> FirstFilled(Tail(shown)),
         files |-> [k \in 1..Len(files) |-> files[k].at],
         folder |-> folder,
         isSubgroup |-> isSubgroup_,
         subgroups |-> Distinct([k \in 1..Len(files) |-> files[k].subgroup])] :
        files \in {Sorted(facts, compareFiles)},
        folder \in {facts[1].context[1]},
        isSubgroup_ \in {isSubgroup(facts)},
        shown \in {CHOOSE again \in {
                      [k \in 1..(Len(sorted) + 1) |->
                          images(d, t, IF k = 1 THEN facts[1].context[1]
                                       ELSE sorted[k - 1].at).value] :
                      sorted \in {Sorted(facts, compareFiles)}} : TRUE}} : TRUE

\* The tree once info() has been asked of each of the files from the i-th on
RECURSIVE Told(_, _, _)
Told(t, files, i) ==
    IF i > Len(files) THEN t
    ELSE CHOOSE once \in {Told(next, files, i + 1) : next \in {Informed(t, files[i])}} : TRUE

\* getMediaGroups(primaries): the files are told apart by their context
\* folder, a group is made where a context folder comes first, and the groups
\* are sorted by their sortable name.  [tree, status, value]
getMediaGroups(d, t, primaries) ==
    CHOOSE once \in {
        (CHOOSE once \in {
            (CHOOSE once \in {
                Returned(told, "ok", Sorted(groups, LAMBDA a, b : localeCompare(a.sortableName, b.sortableName))) :
                groups \in {LET firsts == SelectSeq([i \in 1..Len(facts) |-> i],
                                                    LAMBDA i : \A j \in 1..(i - 1) :
                                                                   facts[j].context # facts[i].context)
                            IN  [k \in 1..Len(firsts) |->
                                    MediaGroup(d, told,
                                               SelectSeq(facts, LAMBDA x :
                                                   x.context = facts[firsts[k]].context))]}} : TRUE) :
            facts \in {[i \in 1..Len(Grouped(told, primaries)) |->
                          FileFacts(told, Grouped(told, primaries)[i])]}} : TRUE) :
        told \in {Told(t, Grouped(t, primaries), 1)}} : TRUE

\* The generator of descendants(): where the loop over the kids of one object is
Frame(kids_) == [kids |-> kids_, at |-> 0]

\* The loops go on until one has a kid to yield: [stack, value], value being
\* None when the outermost loop is over
\* Mutant of Advance: the walk is over when the innermost loop is
AdvanceInnermost(stack) ==
    IF stack = <<>> THEN [stack |-> <<>>, value |-> None]
    ELSE LET top == stack[Len(stack)]
         IN  IF top.at < Len(top.kids)
             THEN [stack |-> [stack EXCEPT ![Len(stack)].at = top.at + 1],
                   value |-> Some(top.kids[top.at + 1])]
             ELSE [stack |-> <<>>, value |-> None]

RECURSIVE Advance(_)
Advance(stack) ==
    IF stack = <<>> THEN [stack |-> <<>>, value |-> None]
    ELSE LET top == stack[Len(stack)]
         IN  IF top.at < Len(top.kids)
             THEN [stack |-> [stack EXCEPT ![Len(stack)].at = top.at + 1],
                   value |-> Some(top.kids[top.at + 1])]
             ELSE Advance(SubSeq(stack, 1, Len(stack) - 1))

\* One next() of the iterator w of descendants(): the generator starts with
\* self.children(), and after a yield goes on with the descendants() of the
\* kid it yielded.  [tree, status, stack, value]
descendantsNext(d, t, w) ==
    LET from == IF w.stack = <<>> THEN w.of
                ELSE w.stack[Len(w.stack)].kids[w.stack[Len(w.stack)].at]
    IN  (CHOOSE once \in {IF c.status # "ok"
                 THEN [tree |-> c.tree, status |-> c.status, stack |-> <<>>, value |-> None]
                 ELSE (CHOOSE once \in {[tree |-> c.tree, status |-> "ok",
                                       stack |-> a.stack, value |-> a.value] :
        a \in {Advance(Append(w.stack, Frame(c.value)))}} : TRUE) :
        c \in {primaryChildren(d, t, from)}} : TRUE)

(***************************************************************************)
(* The disks explored                                                      *)
(***************************************************************************)
PA == <<"/", "A", "/">>
PB == <<"/", "B", "/">>
PC == <<"/", "C", "/">>
PM == <<"/", "M", "/">>                  \* never on the disk
PT == <<"/", "T", ".", "junction">>

Dir(n) == [name |-> n, isDirectory |-> TRUE]
File(n) == [name |-> n, isDirectory |-> FALSE]

dS == Dir(<<"S">>)
dSj == File(<<"S", ".", "junction">>)
dS1 == Dir(<<"S", ".", "1">>)
dS1j == File(<<"S", ".", "1", ".", "junction">>)
dE == File(<<"e", ".", "mp4">>)

\* The listings of at most MaxKids different children drawn from U
Listings(U) ==
    UNION {{s \in [1..n -> U] : \A i, j \in 1..n : s[i] = s[j] => i = j} : n \in 0..MaxKids}

ChildPaths(folder, listing, dirs) ==
    {folder \o listing[i].name \o (IF dirs THEN <<SEPARATOR>> ELSE <<>>) :
        i \in {k \in 1..Len(listing) : listing[k].isDirectory = dirs}}

Descriptor(size, first, rest) == [size |-> size, first |-> first, rest |-> rest]

\* A disk: /T.junction, the folders /A/ and /B/ with the given listings, /C/,
\* a folder holding e.mp4 for every folder listed, and the descriptor files
\* listed in /A/ (all with content jA) and in /B/ (all with content jB)
MakeDisk(jT, listA, listB, jA, jB) ==
    LET subA == ChildPaths(PA, listA, TRUE)
        subB == ChildPaths(PB, listB, TRUE)
        juncA == ChildPaths(PA, listA, FALSE)
        juncB == ChildPaths(PB, listB, FALSE)
    IN  [list |-> [p \in {PA, PB, PC} \cup subA \cup subB |->
                    IF p = PA THEN listA ELSE IF p = PB THEN listB ELSE <<dE>>],
         junc |-> [p \in {PT} \cup juncA \cup juncB |->
                    IF p = PT THEN jT ELSE IF p \in juncA THEN jA ELSE jB]]

\* A descriptor of a few lines
SmallDescriptor(first, rest) == Descriptor(64, first, rest)

\* Disks that differ in what the folders hold and in the child descriptors
LayoutDisks ==
    {MakeDisk(SmallDescriptor(jT[1], jT[2]), listA, listB,
              SmallDescriptor(typeA, <<PC>>),
              SmallDescriptor("REQUIRED", <<PC, PM>>)) :
        jT \in {<<"REQUIRED", <<PA, PB>>>>,
                <<"REQUIRED", <<<<"B", "/">>, PM, <<"A", "/">>>>>>,
                <<"OPTIONAL", <<<<"B", "/">>, PM, <<"A", "/">>>>>>},
        listA \in Listings({dS, dSj, dS1j}),
        listB \in Listings({dS, dSj, dS1}),
        typeA \in {"REQUIRED", "OPTIONAL", "Required"}}

\* Disks that differ in the descriptor /T.junction
DescriptorDisks ==
    {MakeDisk(Descriptor(size, type, <<PA, PB>>), <<dS>>, <<dS, dE>>,
              SmallDescriptor("REQUIRED", <<PC>>),
              SmallDescriptor("REQUIRED", <<PC>>)) :
        size \in {64, JUNCTION_MAXIMUM_LENGTH - 1, JUNCTION_MAXIMUM_LENGTH,
                  JUNCTION_MAXIMUM_LENGTH + 1},
        type \in {"REQUIRED", "OPTIONAL", "required", "REQUIRED ", ""}}

RootPaths == {PT, PA, PM}

NoKids == [status |-> "none", value |-> <<>>, at |-> 0]
NoTree == <<>>
NoOut == [op |-> "none"]
NoWalk == [status |-> "none", of |-> <<>>, stack |-> <<>>, seen |-> <<>>, earlier |-> <<>>]
TreeIdle == tree = NoTree /\ walk = NoWalk /\ out = NoOut
\* No promise, no call of retry and no list are under study
NoTimeout == [promise |-> None, log |-> <<>>]
NoRetry == [pc |-> "none", given |-> <<>>, delays |-> <<>>, wait |-> None, events |-> <<>>,
            result |-> None]
NoList == [made |-> FALSE]
AsyncIdle == timeout = NoTimeout /\ retried = NoRetry /\ alist = NoList /\ iters = <<>>
\* No children() call on the Primary wrapping cur is followed step by step
CacheIdle == children_ = None /\ flights = <<>> /\ made = 0 /\ log = <<>>
NoRet == [status |-> "none", value |-> <<>>]

(***************************************************************************)
(* The state machine                                                       *)
(***************************************************************************)
Init ==
    /\ disk \in LayoutDisks \cup DescriptorDisks
    /\ cur = None
    /\ curPath = None
    /\ loadStatus = "none"
    /\ kids = NoKids
    /\ listed = <<>>
    /\ entryChildren_ = None
    /\ pret = NoRet
    /\ calls = 0
    /\ op = "init"
    /\ data = None
    /\ primary = None
    /\ filename = None
    /\ parsed = None
    /\ info_ = None
    /\ TreeIdle
    /\ AsyncIdle
    /\ CacheIdle

\* loadEntry(p) makes a new Entry, wrapped by a new Primary
LoadEntry(p) ==
    LET loaded == loadEntry(disk, p)
    IN  /\ op = "init"
        /\ cur' = loaded.entry
        /\ curPath' = Some(p)
        /\ loadStatus' = loaded.status
        /\ kids' = NoKids
        /\ listed' = <<>>
        /\ entryChildren_' = None
        /\ pret' = NoRet
        /\ calls' = 0
        /\ op' = "loadEntry"
        /\ UNCHANGED <<disk, mediaVars, treeVars, asyncVars, cacheVars>>

\* cur.children()
Children ==
    /\ cur # None
    /\ calls < MaxCalls
    /\ LET run == children(disk, cur[1])
       IN  /\ kids' = [status |-> run.status, value |-> run.value, at |-> run.at]
           /\ listed' = Append(listed, run.reads)
    /\ calls' = calls + 1
    /\ op' = "children"
    /\ UNCHANGED <<disk, cur, curPath, loadStatus, entryChildren_, pret, mediaVars, treeVars, asyncVars, cacheVars>>

\* The caller goes on with the i-th Entry children() returned
Descend(i) ==
    /\ kids.status = "ok"
    /\ i \in 1..Len(kids.value)
    /\ cur' = Some(kids.value[i])
    /\ curPath' = None
    /\ kids' = NoKids
    /\ listed' = <<>>
    /\ entryChildren_' = None
    /\ pret' = NoRet
    /\ calls' = 0
    /\ op' = "descend"
    /\ UNCHANGED <<disk, loadStatus, mediaVars, treeVars, asyncVars, cacheVars>>

\* Primary.entryChildren() of the Primary wrapping cur
EntryChildren ==
    /\ cur # None
    /\ calls < MaxCalls
    /\ LET r == entryChildren(disk, cur[1], entryChildren_)
       IN  /\ entryChildren_' = r.cache
           /\ pret' = [status |-> r.status, value |-> r.value]
           /\ listed' = Append(listed, r.reads)
    /\ calls' = calls + 1
    /\ op' = "entryChildren"
    /\ UNCHANGED <<disk, cur, curPath, loadStatus, kids, mediaVars, treeVars, asyncVars, cacheVars>>

\* Primary.refresh()
Refresh ==
    /\ entryChildren_ # None
    /\ entryChildren_' = None
    /\ listed' = <<>>
    /\ op' = "refresh"
    /\ UNCHANGED <<disk, cur, curPath, loadStatus, kids, pret, calls, mediaVars, treeVars, asyncVars, cacheVars>>

Next ==
    \/ \E p \in RootPaths : LoadEntry(p)
    \/ Children
    \/ \E i \in 1..Len(kids.value) : Descend(i)
    \/ EntryChildren
    \/ Refresh

Spec == Init /\ [][Next]_vars

(***************************************************************************)
(* The filenames, files and Data records explored                          *)
(***************************************************************************)
FileNames ==
    {<<"S", "h", "o", "w", " ", "-", " ", "S", "1", "E", "2", " ", "-", " ", "T", "i", "t", "l", "e">>,
     <<"G", " ", "-", " ", "S", "1", "E", "2", " ", "-", " ", "T">>,
     <<"G", " ", "-", " ", "S", "1", "E", "2", " ", "-", " ", "3", " ", "T">>,
     <<"G", " ", "-", " ", "2", "0", "0", "5", " ", "-", " ", "S", "1", "E", "2">>,
     <<"S", "1", "E", "2">>,
     <<"s", "1", "e", "2", "-", "e", "3">>,
     <<"G", " ", "-", " ", "1", "x", "2", " ", "T">>,
     <<"G", " ", "-", " ", "X", " ", "-", " ", "T">>,
     <<"G", " ", "-", " ", "1", " ", "T">>,
     <<"G", " ", "-", " ", "T">>,
     <<"1", " ", "T">>,
     <<"T">>,
     <<"E", "p", " ", "3">>,
     <<"T", " ", "(", "2", "0", "0", "5", ")">>,
     <<"G", "_", "G", " ", " ", "-", " ", " ", "T">>,
     <<" ", "T", " ">>,
     <<"T", "\n", "T">>,
     <<" ">>,
     <<>>}

\* A video file in the root folder, a track two folders below the root, and
\* a folder
VideoFile == [extension |-> Some(<<"m", "p", "4">>), isFolder |-> FALSE, folders |-> <<<<"L">>>>]
AudioFile == [extension |-> Some(<<"m", "p", "3">>), isFolder |-> FALSE,
              folders |-> <<<<"L">>, <<"Q", "_", "Q">>, <<"P">>>>]
Folder == [extension |-> None, isFolder |-> TRUE, folders |-> <<<<"L">>>>]
\* A video file in /L/G/, and one in /L/G/Season 1/
GroupedFile == [extension |-> Some(<<"m", "p", "4">>), isFolder |-> FALSE,
                folders |-> <<<<"L">>, <<"G">>>>]
SeasonFile == [extension |-> Some(<<"m", "p", "4">>), isFolder |-> FALSE,
               folders |-> <<<<"L">>, <<"G">>, <<"S", "e", "a", "s", "o", "n", " ", "1">>>>]
Files == {VideoFile, AudioFile, Folder, GroupedFile, SeasonFile}

MediaPrimary(n, f) ==
    [name |-> n, extension |-> f.extension, isFolder |-> f.isFolder, folders |-> f.folders]

Dates ==
    {[year |-> None, month |-> None, day |-> None],
     [year |-> Some(Y2005), month |-> None, day |-> None],
     [year |-> Some(Y2005), month |-> Some(<<"0", "3">>), day |-> Some(<<"2", "6">>)]}

DataRecords ==
    {Data([group |-> g, subgroup |-> sg, subgroupNumber |-> sn, number |-> nr,
           name |-> Some(<<"R">>),
           year |-> dt.year, month |-> dt.month, day |-> dt.day]) :
        g \in {None, Some(<<"G">>)},
        sg \in {None, Some(SeasonText \o <<"1">>), Some(SeriesText \o <<"1">>),
                Some(Y2005), Some(<<"X">>)},
        sn \in {None, Some(<<"1">>)},
        nr \in {None, Some(<<"2">>)},
        dt \in Dates}

NoDisk == [list |-> <<>>, junc |-> <<>>]

(***************************************************************************)
(* The state machine of the filename grammar: a Data record is made into   *)
(* its standard filename, or a filename is given; the filename is parsed,  *)
(* and the file of that name is asked for its info                         *)
(***************************************************************************)
InitMedia ==
    /\ disk = NoDisk
    /\ cur = None
    /\ curPath = None
    /\ loadStatus = "none"
    /\ kids = NoKids
    /\ listed = <<>>
    /\ entryChildren_ = None
    /\ pret = NoRet
    /\ calls = 0
    /\ op = "init"
    /\ \/ /\ data \in {Some(d) : d \in DataRecords}
          /\ filename = None
          /\ primary = Some(VideoFile)
       \/ /\ data = None
          /\ filename \in {Some(t) : t \in FileNames}
          /\ primary \in {Some(f) : f \in Files}
    /\ parsed = None
    /\ info_ = None
    /\ TreeIdle
    /\ AsyncIdle
    /\ CacheIdle

\* filename = standardFilename(data)
StandardFilename ==
    /\ data # None
    /\ filename = None
    /\ filename' = Some(standardFilename(data[1]))
    /\ op' = "standardFilename"
    /\ UNCHANGED <<fileVars, treeVars, asyncVars, cacheVars, data, primary, parsed, info_>>

\* parseData(filename)
ParseData ==
    /\ filename # None
    /\ parsed = None
    /\ parsed' = Some(parseData(filename[1], standardDataExtractors))
    /\ op' = "parseData"
    /\ UNCHANGED <<fileVars, treeVars, asyncVars, cacheVars, data, primary, filename, info_>>

\* The info getter of the MediaPrimary named filename
Info ==
    /\ filename # None
    /\ info_' = info(MediaPrimary(filename[1], primary[1]), info_).cache
    /\ op' = "info"
    /\ UNCHANGED <<fileVars, treeVars, asyncVars, cacheVars, data, primary, filename, parsed>>

NextMedia ==
    \/ StandardFilename
    \/ ParseData
    \/ Info

SpecMedia == InitMedia /\ [][NextMedia]_vars

(***************************************************************************)
(* The media libraries explored: the root folder /L/ holds the folders G   *)
(* and C, G holds the folder S.  Some files are in every library, the      *)
(* others only in the libraries that list them as extras                   *)
(***************************************************************************)
MaxExtras == 2    \* a library holds at most this many of the extra files
MaxWalks == 2     \* descendants() iterables are iterated at most this often
MaxInput == 2     \* getMediaGroups is given at most this many primaries

TreeRoot == <<"/", "L", "/">>
TreeG == TreeRoot \o <<"G", "/">>
TreeS == TreeG \o <<"S", "/">>
TreeC == TreeRoot \o <<"C", "/">>
TreeD == TreeRoot \o <<"D", "/">>

Episode == <<"E", "p", "i", "s", "o", "d", "e">>
DoctorWho == <<"D", "o", "c", "t", "o", "r", " ", "W", "h", "o">>

Always(item) == [item |-> item, extra |-> ""]
Extra(label, item) == [item |-> item, extra |-> label]

ListingL ==
    <<Always(Dir(<<"G">>)), Extra("L/folder.G.jpg", File(<<"f", "o", "l", "d", "e", "r", ".", "G", ".", "j", "p", "g">>)),
      Always(Dir(<<"C">>)), Always(Dir(<<"D">>))>>
ListingG ==
    <<Extra("G/folder.jpg", File(<<"f", "o", "l", "d", "e", "r", ".", "j", "p", "g">>)), Always(Dir(<<"S">>)),
      Extra("G/folder.S.jpg", File(<<"f", "o", "l", "d", "e", "r", ".", "S", ".", "j", "p", "g">>)),
      Extra("G/S.jpg", File(<<"S", ".", "j", "p", "g">>))>>
ListingS ==
    <<Always(File(<<"T", ".", "m", "p", "4">>)), Extra("S/T.jpg", File(<<"T", ".", "j", "p", "g">>)), Always(File(<<"T", ".", "m", "4", "v">>)),
      Always(File(<<"A", " ", "-", " ", "T", ".", "m", "p", "4">>)),
      Extra("S/A - T.jpg", File(<<"A", " ", "-", " ", "T", ".", "j", "p", "g">>))>>
ListingC ==
    <<Always(File(Episode \o <<".", "m", "p", "4", ".", "e", "n", ".", "v", "t", "t">>)),
      Always(File(Episode \o <<".", "m", "p", "4", "2", ".", "v", "t", "t">>)),
      Always(File(Episode \o <<".", "m", "p", "4">>)),
      Always(File(<<"A", " ", "-", " ", "T", ".", "m", "p", "4">>)),
      Always(File(Episode \o <<"2", ".", "v", "t", "t">>)),
      Always(Dir(Episode \o <<".", "m", "p", "4">>)),
      Extra("C/folder.jpg", File(<<"f", "o", "l", "d", "e", "r", ".", "j", "p", "g">>)),
      Always(File(Episode \o <<".", "v", "t", "t">>))>>
ListingD ==
    <<Always(File(DoctorWho \o <<" ", "-", " ", "s", "1", "e", "2", " ", "-", " ", "A", "l", "i", "e", "n", "s", ".", "m", "p", "4">>)),
      Always(File(DoctorWho \o <<" ", "-", " ", "s", "1", "e", "1", " ", "-", " ", "R", "o", "s", "e", ".", "m", "p", "4">>))>>

Extras ==
    {"L/folder.G.jpg", "G/folder.jpg", "G/folder.S.jpg", "G/S.jpg", "S/T.jpg", "C/folder.jpg"}

Listed(all, extras) ==
    LET kept == SelectSeq(all, LAMBDA x : x.extra = "" \/ x.extra \in extras)
    IN  [i \in 1..Len(kept) |-> kept[i].item]

TreeDisk(extras) ==
    [list |-> [p \in {TreeRoot, TreeG, TreeS, TreeC, TreeD,
                      TreeC \o Episode \o <<".", "m", "p", "4", "/">>} |->
                 IF p = TreeRoot THEN Listed(ListingL, extras)
                 ELSE IF p = TreeG THEN Listed(ListingG, extras)
                 ELSE IF p = TreeS THEN Listed(ListingS, extras)
                 ELSE IF p = TreeC THEN Listed(ListingC, extras)
                 ELSE IF p = TreeD THEN Listed(ListingD, extras)
                 ELSE <<>>],
     junc |-> <<>>]

TreeDisks == {TreeDisk(extras) : extras \in {x \in SUBSET Extras : Cardinality(x) <= MaxExtras}}

(***************************************************************************)
(* The state machine of the tree: the root is made from /L/, and the       *)
(* objects made so far are asked for their children and their satellites   *)
(***************************************************************************)
InitTree ==
    /\ disk \in TreeDisks
    /\ cur = None
    /\ curPath = None
    /\ loadStatus = "none"
    /\ kids = NoKids
    /\ listed = <<>>
    /\ entryChildren_ = None
    /\ pret = NoRet
    /\ calls = 0
    /\ op = "init"
    /\ data = None
    /\ primary = None
    /\ filename = None
    /\ parsed = None
    /\ info_ = None
    /\ tree = [p \in {<<>>} |-> NewPrimary(loadEntry(disk, TreeRoot).entry[1])]
    /\ walk = NoWalk
    /\ out = NoOut
    /\ AsyncIdle
    /\ CacheIdle

\* for await (... of x.descendants()): the iterable of the object at p hands
\* out a new generator, the iteration before it being over
Iterate(p) ==
    /\ p \in DOMAIN tree
    /\ walk.status \in {"none", "done"}
    /\ Len(walk.earlier) + (IF walk.status = "done" THEN 1 ELSE 0) < MaxWalks
    /\ out = NoOut
    /\ walk.status = "none" => p = <<>>
    /\ walk' = [status |-> "fresh", of |-> p, stack |-> <<>>, seen |-> <<>>,
                earlier |-> IF walk.status = "done"
                            THEN Append(walk.earlier, [of |-> walk.of, seen |-> walk.seen])
                            ELSE walk.earlier]
    /\ op' = "iterate"
    /\ UNCHANGED <<fileVars, mediaVars, asyncVars, cacheVars, tree, out>>

\* The loop asks the generator for the next object
WalkNext ==
    /\ walk.status \in {"fresh", "running"}
    /\ \E r \in {descendantsNext(disk, tree, walk)} :
           /\ tree' = r.tree
           /\ walk' = [walk EXCEPT
                         !.status = IF r.status # "ok" THEN "failed"
                                    ELSE IF r.value = None THEN "done" ELSE "running",
                         !.stack = r.stack,
                         !.seen = IF r.value = None THEN @ ELSE Append(@, r.value[1])]
    /\ op' = "next"
    /\ UNCHANGED <<fileVars, mediaVars, asyncVars, cacheVars, out>>

\* The library has been walked once, from the root, and nothing has been asked
\* of its objects since
Walked == walk.status = "done" /\ walk.earlier = <<>> /\ out = NoOut

\* satellites() of the object at p
Satellites(p) ==
    /\ Walked
    /\ p \in DOMAIN tree
    /\ \E r \in {satellites(disk, tree, p)} :
           /\ tree' = r.tree
           /\ out' = [op |-> "satellites", of |-> p, status |-> r.status, value |-> r.value]
    /\ op' = "satellites"
    /\ UNCHANGED <<fileVars, mediaVars, asyncVars, cacheVars, walk>>

\* images() of the object at p
Images(p) ==
    /\ Walked
    /\ p \in DOMAIN tree
    /\ \E r \in {images(disk, tree, p)} :
           /\ tree' = r.tree
           /\ out' = [op |-> "images", of |-> p, status |-> r.status, value |-> r.value]
    /\ op' = "images"
    /\ UNCHANGED <<fileVars, mediaVars, asyncVars, cacheVars, walk>>

\* The primaries getMediaGroups is given: some of the files of the folders S
\* and D, and of the folders the one that was yielded first, in some order
InputPlaces ==
    {q \in DOMAIN tree : ~isFolder(tree[q].entry) /\ tree[parent(q)[1]].entry.name # <<"C">>}
        \cup {walk.seen[1]}

Inputs ==
    UNION {{s \in [1..n -> InputPlaces] : \A i, j \in 1..n : s[i] = s[j] => i = j} :
           n \in 0..MaxInput}

\* getMediaGroups(primaries)
GetMediaGroups(primaries) ==
    /\ Walked
    /\ \E r \in {getMediaGroups(disk, tree, primaries)} :
           /\ tree' = r.tree
           /\ out' = [op |-> "getMediaGroups", of |-> primaries, status |-> r.status,
                      value |-> r.value]
    /\ op' = "getMediaGroups"
    /\ UNCHANGED <<fileVars, mediaVars, asyncVars, cacheVars, walk>>

NextTree ==
    \/ \E p \in DOMAIN tree : Iterate(p)
    \/ WalkNext
    \/ \E p \in DOMAIN tree : Satellites(p)
    \/ \E p \in DOMAIN tree : Images(p)

SpecTree == InitTree /\ [][NextTree]_vars

(***************************************************************************)
(* The state machine of the grouping: the libraries differ in the images   *)
(* of the folder S and of its files; the library is walked from the root   *)
(* and getMediaGroups is given some of the objects met                     *)
(***************************************************************************)
GroupExtras == {"G/S.jpg", "S/T.jpg", "S/A - T.jpg"}

GroupDisks ==
    {TreeDisk(extras) : extras \in {x \in SUBSET GroupExtras : Cardinality(x) <= MaxExtras}}

InitGroups ==
    /\ disk \in GroupDisks
    /\ cur = None
    /\ curPath = None
    /\ loadStatus = "none"
    /\ kids = NoKids
    /\ listed = <<>>
    /\ entryChildren_ = None
    /\ pret = NoRet
    /\ calls = 0
    /\ op = "init"
    /\ data = None
    /\ primary = None
    /\ filename = None
    /\ parsed = None
    /\ info_ = None
    /\ tree = [p \in {<<>>} |-> NewPrimary(loadEntry(disk, TreeRoot).entry[1])]
    /\ walk = NoWalk
    /\ out = NoOut
    /\ AsyncIdle
    /\ CacheIdle

NextGroups ==
    \/ Iterate(<<>>)
    \/ WalkNext
    \/ Walked /\ \E primaries \in Inputs : GetMediaGroups(primaries)

SpecGroups == InitGroups /\ [][NextGroups]_vars

(***************************************************************************)
(* promise.ts: delay and retry.  A promise is known by what it has settled *)
(* with: None while it is pending, Some(value) once it is settled.  A      *)
(* timer is pending, fired or cleared.                                     *)
(***************************************************************************)
MaxCancels == 2   \* cancel() is called at most this often on one promise
MaxDelays == 2    \* retry is given at most this many delays

Millis == {10, 20}

\* Mutant of resolve: a later call settles the promise again
resolveAgain(p, v) == [p EXCEPT !.value = Some(v)]

\* promise.resolve(v): the resolve function of the Promise constructor, which
\* does nothing once the promise is settled
resolve(p, v) == IF p.value = None THEN [p EXCEPT !.value = Some(v)] ELSE p

\* delay(ms): the promise and the timer it starts
delay(ms) == [timer |-> "pending", ms |-> ms, value |-> None]

\* The callback of setTimeout runs
expire(p) == resolve([p EXCEPT !.timer = "fired"], "TimeoutExpired")

\* clearTimeout(token)
clearTimeout(p) == IF p.timer = "pending" THEN [p EXCEPT !.timer = "cleared"] ELSE p

\* promise.cancel()
cancel(p) == resolve(clearTimeout(p), "TimeoutCanceled")

\* What invocation k of fn returns, and what it throws
Value(k) == [value |-> k]
Error(k) == [error |-> k]

\* How often fn has been invoked
Invocations(events) == Len(SelectSeq(events, LAMBDA x : x.kind = "call"))

\* Mutant of retryCatch: the last delay is not used
retryCatchOneLess(r, e) ==
    IF Len(r.delays) <= 1
    THEN [r EXCEPT !.pc = "rejected", !.result = Some(e),
                   !.events = Append(@, [kind |-> "throw", error |-> e])]
    ELSE [r EXCEPT !.pc = "waiting", !.wait = Some(delay(r.delays[1])),
                   !.events = Append(@, [kind |-> "throw", error |-> e])
                                  \o <<[kind |-> "delay", ms |-> r.delays[1]]>>]

\* retry, the catch block: without delays the error is thrown on, else
\* delay(delays[0]) is awaited
retryCatch(r, e) ==
    IF r.delays = <<>>
    THEN [r EXCEPT !.pc = "rejected", !.result = Some(e),
                   !.events = Append(@, [kind |-> "throw", error |-> e])]
    ELSE [r EXCEPT !.pc = "waiting", !.wait = Some(delay(r.delays[1])),
                   !.events = Append(@, [kind |-> "throw", error |-> e])
                                  \o <<[kind |-> "delay", ms |-> r.delays[1]]>>]

\* retry(fn, delays) up to the await of fn()
retry(r, delays) ==
    [r EXCEPT !.pc = "calling", !.delays = delays, !.wait = None,
              !.events = Append(@, [kind |-> "call"])]

InitPromise ==
    /\ disk = NoDisk
    /\ cur = None
    /\ curPath = None
    /\ loadStatus = "none"
    /\ kids = NoKids
    /\ listed = <<>>
    /\ entryChildren_ = None
    /\ pret = NoRet
    /\ calls = 0
    /\ op = "init"
    /\ data = None
    /\ primary = None
    /\ filename = None
    /\ parsed = None
    /\ info_ = None
    /\ TreeIdle
    /\ AsyncIdle
    /\ CacheIdle

\* delay(ms)
Delay(ms) ==
    /\ timeout.promise = None
    /\ timeout' = [promise |-> Some(delay(ms)), log |-> <<>>]
    /\ op' = "delay"
    /\ UNCHANGED <<fileVars, mediaVars, treeVars, cacheVars, retried, alist, iters>>

\* The timer of the promise fires
Expire ==
    /\ timeout.promise # None
    /\ timeout.promise[1].timer = "pending"
    /\ timeout' = [promise |-> Some(expire(timeout.promise[1])),
                   log |-> Append(timeout.log, "fire")]
    /\ op' = "expire"
    /\ UNCHANGED <<fileVars, mediaVars, treeVars, cacheVars, retried, alist, iters>>

\* promise.cancel()
Cancel ==
    /\ timeout.promise # None
    /\ Len(SelectSeq(timeout.log, LAMBDA x : x = "cancel")) < MaxCancels
    /\ timeout' = [promise |-> Some(cancel(timeout.promise[1])),
                   log |-> Append(timeout.log, "cancel")]
    /\ op' = "cancel"
    /\ UNCHANGED <<fileVars, mediaVars, treeVars, cacheVars, retried, alist, iters>>

\* retry(fn, delays)
Retry(delays) ==
    /\ retried.pc = "none"
    /\ retried' = retry([retried EXCEPT !.given = delays], delays)
    /\ op' = "retry"
    /\ UNCHANGED <<fileVars, mediaVars, treeVars, cacheVars, timeout, alist, iters>>

\* fn() returns, or the promise it returned is fulfilled
FnReturns ==
    /\ retried.pc = "calling"
    /\ retried' = [retried EXCEPT
                     !.pc = "resolved",
                     !.result = Some(Value(Invocations(retried.events))),
                     !.events = Append(@, [kind |-> "return",
                                           value |-> Value(Invocations(retried.events))])]
    /\ op' = "fn returns"
    /\ UNCHANGED <<fileVars, mediaVars, treeVars, cacheVars, timeout, alist, iters>>

\* fn() throws, or the promise it returned is rejected
FnThrows ==
    /\ retried.pc = "calling"
    /\ retried' = retryCatch(retried, Error(Invocations(retried.events)))
    /\ op' = "fn throws"
    /\ UNCHANGED <<fileVars, mediaVars, treeVars, cacheVars, timeout, alist, iters>>

\* The delay retry awaits is over: retry(fn, delays.slice(1))
RetryAgain ==
    /\ retried.pc = "waiting"
    /\ retried.wait[1].timer = "pending"
    /\ \E waited \in {expire(retried.wait[1])} :
           /\ waited.value = Some("TimeoutExpired")
           /\ retried' = retry([retried EXCEPT
                                  !.events = Append(@, [kind |-> "waited", ms |-> waited.ms])],
                               Tail(retried.delays))
    /\ op' = "retry again"
    /\ UNCHANGED <<fileVars, mediaVars, treeVars, cacheVars, timeout, alist, iters>>

DelayLists == UNION {[1..n -> Millis] : n \in 0..MaxDelays}

NextPromise ==
    \/ \E ms \in Millis : Delay(ms)
    \/ Expire
    \/ Cancel
    \/ \E delays \in DelayLists : Retry(delays)
    \/ FnReturns
    \/ FnThrows
    \/ RetryAgain

SpecPromise == InitPromise /\ [][NextPromise]_vars

(***************************************************************************)
(* promise.ts: AsyncList.  The promises nextChange_ has held are numbered  *)
(* in the order they were made; resolved holds the numbers of those that   *)
(* are resolved.  An iterator is a generator of iterator(): it has not     *)
(* started, or is suspended at the yield or at the await, or is done.      *)
(***************************************************************************)
MaxItems == 3     \* the list is given at most this many items
MaxPush == 2      \* one push() is given at most this many items
MaxIters == 1     \* at most this many iterators are made of the list
MaxChanges == 3   \* push() is called at most this often

\* new AsyncList()
NewList == [made |-> TRUE, list |-> <<>>, status |-> "active", nextChange_ |-> 1,
            resolved |-> {}]

\* this.change()
change(l) ==
    [l EXCEPT !.nextChange_ = IF l.status # "done" THEN @ + 1 ELSE @,
              !.resolved = @ \cup {l.nextChange_}]

\* Mutant of close: nobody is told
closeSilently(l) == [l EXCEPT !.status = "done"]

\* this.close()
close(l) == change([l EXCEPT !.status = "done"])

\* this.nextChange(): [thrown, value]
nextChange(l) ==
    IF l.status = "done" THEN [thrown |-> TRUE, value |-> 0]
    ELSE [thrown |-> FALSE, value |-> l.nextChange_]

\* this.push(...items): [thrown, list]
push(l, items) ==
    IF l.status = "done" THEN [thrown |-> TRUE, list |-> l]
    ELSE [thrown |-> FALSE, list |-> change([l EXCEPT !.list = @ \o items])]

\* this.iterator(): the generator before its first next()
iterator == [pc |-> "start", index |-> 0, awaits |-> 0, seen |-> <<>>]

\* The generator runs on, from its start, from a yield or from the await, up
\* to the next yield, to the await or to its end.  index counts the items
\* yielded: the ++index of the loop runs when the generator is resumed
run(l, it) ==
    IF it.index < Len(l.list)
    THEN [it EXCEPT !.pc = "yield", !.index = @ + 1, !.seen = Append(@, l.list[it.index + 1])]
    ELSE IF l.status = "done" THEN [it EXCEPT !.pc = "done"]
    ELSE [it EXCEPT !.pc = "await", !.awaits = nextChange(l).value]

InitList ==
    /\ disk = NoDisk
    /\ cur = None
    /\ curPath = None
    /\ loadStatus = "none"
    /\ kids = NoKids
    /\ listed = <<>>
    /\ entryChildren_ = None
    /\ pret = NoRet
    /\ calls = 0
    /\ op = "init"
    /\ data = None
    /\ primary = None
    /\ filename = None
    /\ parsed = None
    /\ info_ = None
    /\ TreeIdle
    /\ timeout = NoTimeout
    /\ retried = NoRetry
    /\ alist = NewList
    /\ iters = <<>>
    /\ CacheIdle

\* list.push(...items): the items are numbered as they are pushed
Push(n) ==
    /\ \/ alist.status = "done"
       \/ Len(alist.list) + n <= MaxItems /\ alist.nextChange_ <= MaxChanges
    /\ \E r \in {push(alist, [k \in 1..n |-> Len(alist.list) + k])} :
           /\ alist' = r.list
           /\ op' = IF r.thrown THEN "push throws" ELSE "push"
    /\ UNCHANGED <<fileVars, mediaVars, treeVars, cacheVars, timeout, retried, iters>>

\* list.close()
Close ==
    /\ alist' = close(alist)
    /\ alist' # alist
    /\ op' = "close"
    /\ UNCHANGED <<fileVars, mediaVars, treeVars, cacheVars, timeout, retried, iters>>

\* list.nextChange(), called from outside
NextChange ==
    /\ op' = IF nextChange(alist).thrown THEN "nextChange throws" ELSE "nextChange"
    /\ UNCHANGED <<fileVars, mediaVars, treeVars, cacheVars, timeout, retried, alist, iters>>

\* list[Symbol.asyncIterator]()
Iterator ==
    /\ Len(iters) < MaxIters
    /\ iters' = Append(iters, iterator)
    /\ op' = "iterator"
    /\ UNCHANGED <<fileVars, mediaVars, treeVars, cacheVars, timeout, retried, alist>>

\* The loop that uses iterator i asks for the next item
IterNext(i) ==
    /\ i \in 1..Len(iters)
    /\ iters[i].pc \in {"start", "yield"}
    /\ iters' = [iters EXCEPT ![i] = run(alist, iters[i])]
    /\ op' = "next"
    /\ UNCHANGED <<fileVars, mediaVars, treeVars, cacheVars, timeout, retried, alist>>

\* The promise iterator i awaits is resolved, and the generator runs on
IterWake(i) ==
    /\ i \in 1..Len(iters)
    /\ iters[i].pc = "await"
    /\ iters[i].awaits \in alist.resolved
    /\ iters' = [iters EXCEPT ![i] = run(alist, iters[i])]
    /\ op' = "wake"
    /\ UNCHANGED <<fileVars, mediaVars, treeVars, cacheVars, timeout, retried, alist>>

NextList ==
    \/ \E n \in 0..MaxPush : Push(n)
    \/ Close
    \/ NextChange
    \/ Iterator
    \/ \E i \in 1..MaxIters : IterNext(i)
    \/ \E i \in 1..MaxIters : IterWake(i)

SpecList == InitList /\ [][NextList]_vars

\* The loops that use the iterators go on asking, and a generator whose
\* promise is resolved runs on
SpecListFair ==
    /\ SpecList
    /\ \A i \in 1..MaxIters : WF_vars(IterNext(i)) /\ WF_vars(IterWake(i))

(***************************************************************************)
(* satellite.ts: Primary.children() and refresh(), a call followed from    *)
(* one await to the next.  A child object is known by its entry and by     *)
(* the createChild pass that made it                                       *)
(***************************************************************************)
MaxAsks == 3        \* children() is called at most this often
MaxRefreshes == 2   \* refresh() is called at most this often

\* The objects studied: the root folder, the folder S, a file of S, and a
\* folder that is not on the disk
StudiedPaths ==
    {TreeRoot, TreeS, TreeS \o <<"T", ".", "m", "p", "4">>, TreeRoot \o <<"X", "/">>}

FoldersAbove(path) ==
    IF path = TreeRoot THEN <<>>
    ELSE IF path = TreeS THEN <<<<"L">>, <<"G">>>>
    ELSE IF path = TreeRoot \o <<"X", "/">> THEN <<<<"L">>>>
    ELSE <<<<"L">>, <<"G">>, <<"S">>>>

CacheDisks == {TreeDisk({}), TreeDisk({"S/T.jpg"})}

\* Mutant of asked: children_ is not looked at
askedAnew(kept, entries) ==
    IF entries # None
    THEN [pc |-> "entries", c |-> entries[1], reads |-> <<>>, value |-> <<>>]
    ELSE [pc |-> "listing", c |-> <<>>, reads |-> <<>>, value |-> <<>>]

\* children() up to its first await, or to its return: kept is children_,
\* entries is entryChildren_
asked(kept, entries) ==
    IF kept # None
    THEN [pc |-> "returned", c |-> <<>>, reads |-> <<>>, value |-> kept[1]]
    ELSE IF entries # None
    THEN [pc |-> "entries", c |-> entries[1], reads |-> <<>>, value |-> <<>>]
    ELSE [pc |-> "listing", c |-> <<>>, reads |-> <<>>, value |-> <<>>]

\* c.filter(c => c.isFolder || this.isPrimary(c)).map(c => this.createChild(c)),
\* the n-th time the Primary does it
createChildren(c, n) ==
    LET kept == SelectSeq(c, LAMBDA e : isFolder(e) \/ isPrimary(e))
    IN  [k \in 1..Len(kept) |-> [entry |-> kept[k], pass |-> n]]

Event(ev, call) == [ev |-> ev, call |-> call]

\* No children() call is in flight
Quiet == \A i \in 1..Len(flights) : flights[i].pc \in {"returned", "rejected"}

Refreshes == Cardinality({k \in 1..Len(log) : log[k].ev = "refresh"})

InitCache ==
    /\ disk \in CacheDisks
    /\ \E path \in StudiedPaths :
         /\ curPath = Some(path)
         /\ cur = loadEntry(disk, path).entry
         /\ primary = Some([extension |-> cur[1].extension, isFolder |-> isFolder(cur[1]),
                            folders |-> FoldersAbove(path)])
         /\ filename = Some(cur[1].name)
    /\ loadStatus = "ok"
    /\ kids = NoKids
    /\ listed = <<>>
    /\ entryChildren_ = None
    /\ pret = NoRet
    /\ calls = 0
    /\ op = "init"
    /\ data = None
    /\ parsed = None
    /\ info_ = None
    /\ TreeIdle
    /\ AsyncIdle
    /\ CacheIdle

\* A children() call starts and runs to its first await or to its return
Begin_ ==
    /\ Len(flights) < MaxAsks
    /\ flights' = Append(flights, asked(children_, entryChildren_))
    /\ log' = log \o <<Event("ask", Len(flights) + 1)>>
               \o (IF children_ # None THEN <<Event("return", Len(flights) + 1)>> ELSE <<>>)
    /\ op' = "children"
    /\ UNCHANGED <<fileVars, mediaVars, treeVars, asyncVars, children_, made>>

\* children() called while no other call is in flight
Ask == Quiet /\ Begin_

\* children() called while another call is in flight
AskMeanwhile == ~Quiet /\ Begin_

\* The entry.children() that call i awaits in entryChildren() is over:
\* entryChildren_ is assigned and returned, or the call is rejected
ListingEnds(i) ==
    /\ i \in 1..Len(flights)
    /\ flights[i].pc = "listing"
    /\ LET got == children(disk, cur[1])
       IN  IF got.status = "ok"
           THEN /\ entryChildren_' = Some(got.value)
                /\ flights' = [flights EXCEPT ![i].pc = "entries", ![i].c = got.value,
                                              ![i].reads = got.reads]
                /\ log' = log
           ELSE /\ entryChildren_' = entryChildren_
                /\ flights' = [flights EXCEPT ![i].pc = "rejected", ![i].reads = got.reads]
                /\ log' = Append(log, Event("reject", i))
    /\ op' = "listing ends"
    /\ UNCHANGED <<disk, cur, curPath, loadStatus, kids, listed, pret, calls,
                   mediaVars, treeVars, asyncVars, children_, made>>

\* Call i goes on after await this.entryChildren(): children_ is assigned
\* and returned
Resumes(i) ==
    /\ i \in 1..Len(flights)
    /\ flights[i].pc = "entries"
    /\ children_' = Some(createChildren(flights[i].c, made + 1))
    /\ made' = made + 1
    /\ flights' = [flights EXCEPT ![i].pc = "returned", ![i].value = children_'[1]]
    /\ log' = Append(log, Event("return", i))
    /\ op' = "children returns"
    /\ UNCHANGED <<fileVars, mediaVars, treeVars, asyncVars>>

\* MediaPrimary.refresh()
Forget ==
    /\ Refreshes < MaxRefreshes
    /\ entryChildren_' = None
    /\ children_' = None
    /\ info_' = None
    /\ log' = Append(log, Event("refresh", 0))
    /\ op' = "refresh"
    /\ UNCHANGED <<disk, cur, curPath, loadStatus, kids, listed, pret, calls,
                   data, primary, filename, parsed, treeVars, asyncVars, flights, made>>

\* refresh() called while no children() call is in flight
PrimaryRefresh == Quiet /\ Forget

\* refresh() called while a children() call is in flight
RefreshMeanwhile == ~Quiet /\ Forget

\* The info getter of the Primary
PrimaryInfo ==
    /\ info_' = info(MediaPrimary(filename[1], primary[1]), info_).cache
    /\ op' = "info"
    /\ UNCHANGED <<fileVars, treeVars, asyncVars, cacheVars, data, primary, filename, parsed>>

\* The caller awaits every call before it does anything else
NextCache ==
    \/ Ask
    \/ \E i \in 1..MaxAsks : ListingEnds(i)
    \/ \E i \in 1..MaxAsks : Resumes(i)
    \/ PrimaryRefresh
    \/ PrimaryInfo

SpecCache == InitCache /\ [][NextCache]_vars

\* Callers that do not wait for one another
NextRace ==
    \/ NextCache
    \/ AskMeanwhile
    \/ RefreshMeanwhile

SpecRace == InitCache /\ [][NextRace]_vars

(***************************************************************************)
(* Vocabulary of the claims about the junction layer                       *)
(***************************************************************************)
RECURSIVE Flatten(_)
Flatten(seqs) == IF seqs = <<>> THEN <<>> ELSE Head(seqs) \o Flatten(Tail(seqs))

IsValidType(first) == first \in {"OPTIONAL", "REQUIRED"}

\* The folder targets of e that are on the disk, in listed order
ExistingFolderTargets(d, e) ==
    SelectSeq(e.targets, LAMBDA u : isFolderPath(u) /\ exists(d, u))

MissingFolderTarget(d, e, t) ==
    isFolderPath(e.targets[t]) /\ ~exists(d, e.targets[t])

\* The children found under the given folders, each folder's in its
\* enumeration order
ChildLocations(d, folders) ==
    Flatten([t \in 1..Len(folders) |-> directoryEntries(d, folders[t])])

IsDescriptorLocation(url) ==
    /\ Len(url) >= 2
    /\ url[Len(url)] = "junction"
    /\ url[Len(url) - 1] = "."

BadDescriptor(d, url) == IsDescriptorLocation(url) /\ ~IsValidType(d.junc[url].first)

\* The last segment of a location, without the separator that ends a folder's
BaseName(url) ==
    LET last == IF url[Len(url)] = SEPARATOR THEN Len(url) - 1 ELSE Len(url)
    IN  SubSeq(url, 1 + (CHOOSE k \in 0..last :
                            /\ k = 0 \/ url[k] = SEPARATOR
                            /\ \A m \in (k + 1)..last : url[m] # SEPARATOR), last)

FirstIndex(all, e) ==
    CHOOSE k \in 1..Len(all) :
        /\ SameName(all[k], e)
        /\ \A m \in 1..(k - 1) : ~SameName(all[m], e)

\* r holds one entry per (name, extension) of all, in order of first
\* appearance, each with the targets of all the entries of that name in order
IsMergeOf(r, all) ==
    /\ \A i, j \in 1..Len(r) : SameName(r[i], r[j]) => i = j
    /\ \A k \in 1..Len(all) : \E i \in 1..Len(r) : SameName(r[i], all[k])
    /\ \A i \in 1..Len(r) : \E k \in 1..Len(all) : SameName(r[i], all[k])
    /\ \A i, j \in 1..Len(r) : i < j => FirstIndex(all, r[i]) < FirstIndex(all, r[j])
    /\ \A i \in 1..Len(r) :
          r[i].targets =
             Flatten([k \in 1..Len(all) |->
                        IF SameName(all[k], r[i]) THEN all[k].targets ELSE <<>>])

\* The entries loadEntry makes of the children of e's existing folder targets
LoadedChildren(d, e) ==
    LET urls == ChildLocations(d, ExistingFolderTargets(d, e))
    IN  [k \in 1..Len(urls) |-> loadEntry(d, urls[k]).entry[1]]

AfterChildren == op = "children" /\ cur # None

\* children() got as far as target t
Reached(t) == kids.status = "ok" \/ kids.at >= t

(***************************************************************************)
(* C1: when children() succeeds, it returns exactly one Entry per distinct *)
(* (name, extension) among the children of the folder targets, in order of *)
(* first appearance, each with the concatenated targets of the children of *)
(* that name.                                                              *)
(***************************************************************************)
C1_ChildrenMerge ==
    (AfterChildren /\ kids.status = "ok")
        => IsMergeOf(kids.value, LoadedChildren(disk, cur[1]))

\* Two listed folders each hold a child of one name: one Entry, two targets
C1_Witness ==
    /\ AfterChildren /\ kids.status = "ok"
    /\ Len(cur[1].targets) >= 2
    /\ Len(kids.value) >= 2
    /\ \E i \in 1..Len(kids.value) :
          /\ Len(kids.value[i].targets) = 2
          /\ kids.value[i].origins[1].via # kids.value[i].origins[2].via

(***************************************************************************)
(* C2 as claimed: whenever children() reaches a folder target that came    *)
(* from a REQUIRED descriptor or an ordinary location and is missing, it   *)
(* fails with the I/O error and returns nothing, in merged Entries too.    *)
(***************************************************************************)
C2_Original ==
    AfterChildren =>
        \A t \in 1..Len(cur[1].targets) :
            (/\ cur[1].origins[t].kind \in {"REQUIRED", "PLAIN"}
             /\ MissingFolderTarget(disk, cur[1], t)
             /\ Reached(t))
                => (kids.status = "NotFound" /\ kids.at = t /\ kids.value = <<>>)

(***************************************************************************)
(* C2 amended: children() of an Entry whose targetsMayBeMissing is false   *)
(* (no contributor came from an OPTIONAL descriptor) fails with the I/O    *)
(* error at the first missing folder target it reaches; when the flag is   *)
(* true, a missing target is skipped whatever it came from.                *)
(***************************************************************************)
C2_Amended ==
    AfterChildren =>
        \A t \in 1..Len(cur[1].targets) :
            (MissingFolderTarget(disk, cur[1], t) /\ Reached(t))
                => IF cur[1].targetsMayBeMissing
                   THEN kids.status # "NotFound"
                   ELSE kids.status = "NotFound" /\ kids.at = t /\ kids.value = <<>>

C2_Witness ==
    /\ AfterChildren
    /\ ~cur[1].targetsMayBeMissing
    /\ kids.status = "NotFound"
    /\ cur[1].origins[kids.at].kind = "REQUIRED"
    /\ kids.at > 1

(***************************************************************************)
(* C3: children() of an Entry whose targets may be missing never fails     *)
(* for a missing folder target: unless a child descriptor is bad, it       *)
(* returns the merge of the children of the targets that exist.            *)
(***************************************************************************)
C3_OptionalSkipsMissing ==
    (AfterChildren /\ cur[1].targetsMayBeMissing) =>
        /\ kids.status # "NotFound"
        /\ kids.status = "ok" => IsMergeOf(kids.value, LoadedChildren(disk, cur[1]))
        /\ (\A k \in DOMAIN ChildLocations(disk, ExistingFolderTargets(disk, cur[1])) :
              ~BadDescriptor(disk,
                  ChildLocations(disk, ExistingFolderTargets(disk, cur[1]))[k]))
            => kids.status = "ok"

C3_Witness ==
    /\ AfterChildren
    /\ curPath = Some(PT)
    /\ disk.junc[PT].first = "OPTIONAL"
    /\ \E t \in 1..Len(cur[1].targets) : MissingFolderTarget(disk, cur[1], t)
    /\ kids.status = "ok"
    /\ Len(kids.value) >= 2

(***************************************************************************)
(* C4 as claimed: loadEntry of a descriptor fails exactly when its size    *)
(* exceeds 32768 bytes; one of at most 32768 bytes with a valid first line *)
(* produces an Entry.                                                      *)
(***************************************************************************)
C4_Claim ==
    (op = "loadEntry" /\ curPath = Some(PT) /\ IsValidType(disk.junc[PT].first)) =>
        IF disk.junc[PT].size > JUNCTION_MAXIMUM_LENGTH
        THEN loadStatus # "ok" /\ cur = None
        ELSE loadStatus = "ok" /\ cur # None

(***************************************************************************)
(* C5: loadEntry of a descriptor whose first line is neither REQUIRED nor  *)
(* OPTIONAL fails and produces no Entry; children() that meets such a      *)
(* descriptor among the children it loads fails as a whole.                *)
(***************************************************************************)
C5_BadTypeFails ==
    /\ (op = "loadEntry" /\ curPath = Some(PT) /\ ~IsValidType(disk.junc[PT].first))
          => (loadStatus # "ok" /\ cur = None)
    /\ (AfterChildren /\ kids.status = "ok")
          => \A k \in DOMAIN ChildLocations(disk, ExistingFolderTargets(disk, cur[1])) :
                ~BadDescriptor(disk,
                    ChildLocations(disk, ExistingFolderTargets(disk, cur[1]))[k])

C5_Witness ==
    /\ AfterChildren
    /\ kids.status = "BadType"
    /\ kids.value = <<>>
    /\ Len(disk.list[cur[1].targets[kids.at]]) = 2

(***************************************************************************)
(* C6 as claimed: a descriptor X.junction and an ordinary X met under      *)
(* different targets are merged into one Entry, whatever X is.             *)
(***************************************************************************)
C6_Claim ==
    (AfterChildren /\ kids.status = "ok") =>
        \A i, j \in 1..Len(kids.value) :
            (\E a \in DOMAIN kids.value[i].origins, b \in DOMAIN kids.value[j].origins :
                /\ IsDescriptorLocation(kids.value[i].origins[a].via)
                /\ kids.value[j].origins[b].kind = "PLAIN"
                /\ BaseName(kids.value[i].origins[a].via)
                      = BaseName(kids.value[j].origins[b].via) \o <<".", "junction">>)
            => i = j

(***************************************************************************)
(* C7 as claimed: every Entry whose isFolder is true has no extension.     *)
(***************************************************************************)
C7_Claim ==
    /\ cur # None => (isFolder(cur[1]) => cur[1].extension = None)
    /\ \A i \in 1..Len(kids.value) :
          isFolder(kids.value[i]) => kids.value[i].extension = None

(***************************************************************************)
(* C8 as claimed: over the calls made on one Entry with no invalidation in *)
(* between, at most one call lists directories.                            *)
(***************************************************************************)
C8_Original ==
    Cardinality({i \in 1..Len(listed) : listed[i] # <<>>}) <= 1

(***************************************************************************)
(* C8 amended: Entry.children() lists its targets on every call; it is     *)
(* Primary.entryChildren() that memoizes: a call made while the Primary    *)
(* holds a memoized array lists nothing and returns that array.            *)
(***************************************************************************)
C8_Amended ==
    [][(op' = "entryChildren" /\ entryChildren_ # None)
          => /\ listed' = Append(listed, <<>>)
             /\ pret' = [status |-> "ok", value |-> entryChildren_[1]]
             /\ entryChildren_' = entryChildren_]_vars

C8_Witness ==
    /\ op = "entryChildren"
    /\ Len(listed) = 2
    /\ listed[1] # <<>>
    /\ listed[2] = <<>>
    /\ pret.status = "ok"
    /\ Len(pret.value) >= 1

(***************************************************************************)
(* Vocabulary of the claims about the filename grammar                     *)
(***************************************************************************)
PlexExtractor == 3       \* the place of the Plex TV format in the standard list
GenericExtractor == 7    \* the place of `group - name` in the standard list

\* The places of the extractors of the standard list that match t
Matching(t) ==
    {i \in 1..Len(standardDataExtractors) : Exec(standardDataExtractors[i], t) # None}

Lowest(S) == CHOOSE i \in S : \A j \in S : i <= j

\* r is what the first extractor to match t captured, and nothing when none
\* matches
FirstMatchReturned(t, r) ==
    LET hits == Matching(t)
    IN  IF hits = {} THEN r.index = 0 /\ r.groups = NoCaptures
        ELSE /\ r.index = Lowest(hits)
             /\ r.groups = Exec(standardDataExtractors[Lowest(hits)], t)[1]

HasNumbers(r) == Has(r.groups, "subgroupNumber") /\ Has(r.groups, "number")

FullySpecified(d) ==
    /\ Has(d, "group")
    /\ Has(d, "subgroup") \/ Has(d, "subgroupNumber")
    /\ Has(d, "number")
    /\ Has(d, "name")

\* 'Series N' read as 'Season N'
SeasonForSeries(t) ==
    IF Len(t) >= Len(SeriesText) /\ SubSeq(t, 1, Len(SeriesText)) = SeriesText
    THEN SeasonText \o SubSeq(t, Len(SeriesText) + 1, Len(t))
    ELSE t

Recovered(d, r, k) == Has(r, k) /\ r[k] = d[k]

\* r holds the group, subgroup, number and name of d
Recovers(d, r) ==
    /\ Recovered(d, r, "group")
    /\ Recovered(d, r, "number")
    /\ Recovered(d, r, "name")
    /\ IF Has(d, "subgroup")
       THEN Has(r, "subgroup") /\ SeasonForSeries(r["subgroup"]) = SeasonForSeries(d["subgroup"])
       ELSE Recovered(d, r, "subgroupNumber")

(***************************************************************************)
(* C9, as stated: parseData returns the captures of the first extractor of *)
(* the list that matches the whole filename and nothing when none matches, *)
(* and every filename that both the Plex extractor and the `group - name`  *)
(* extractor match yields subgroupNumber and number, never the `group -    *)
(* name` reading.  It does not hold: `G - S1E2 - 3 T` and `G - 2005 -      *)
(* S1E2` are matched by both, and by an extractor placed before the Plex   *)
(* one, whose captures have no subgroupNumber.                             *)
(***************************************************************************)
C9_Original ==
    parsed # None =>
        /\ FirstMatchReturned(filename[1], parsed[1])
        /\ {PlexExtractor, GenericExtractor} \subseteq Matching(filename[1]) =>
                HasNumbers(parsed[1]) /\ parsed[1].index # GenericExtractor

(***************************************************************************)
(* C9, amended: parseData returns the captures of the first extractor of   *)
(* the list that matches the whole filename and nothing when none matches; *)
(* a filename that the Plex extractor and the `group - name` extractor     *)
(* match, and that neither of the two extractors placed before the Plex    *)
(* one matches, yields the Plex captures, subgroupNumber and number among  *)
(* them; and a filename the Plex extractor matches never gets the `group - *)
(* name` reading.                                                          *)
(***************************************************************************)
C9_Amended ==
    parsed # None =>
        LET hits == Matching(filename[1])
        IN  /\ FirstMatchReturned(filename[1], parsed[1])
            /\ ({PlexExtractor, GenericExtractor} \subseteq hits
                    /\ hits \cap (1..(PlexExtractor - 1)) = {}) =>
                    parsed[1].index = PlexExtractor /\ HasNumbers(parsed[1])
            /\ PlexExtractor \in hits => parsed[1].index # GenericExtractor

\* `Show - S1E2 - Title`, which both extractors match, has been parsed
C9_Witness ==
    /\ parsed # None
    /\ filename = Some(<<"S", "h", "o", "w", " ", "-", " ", "S", "1", "E", "2", " ", "-", " ", "T", "i", "t", "l", "e">>)
    /\ {PlexExtractor, GenericExtractor} \subseteq Matching(filename[1])
    /\ parsed[1].index = PlexExtractor
    /\ parsed[1].groups["subgroupNumber"] = <<"1">>
    /\ parsed[1].groups["number"] = <<"2">>

(***************************************************************************)
(* C10: for every Data record with group, subgroup or subgroupNumber,      *)
(* number and name, the info of the file named standardFilename(record)    *)
(* has the record's group, subgroup, number and name, 'Series' read as     *)
(* 'Season'.  It does not hold: the record info gives for `G - 2005-03-26  *)
(* - 02 R` has the subgroup `2005`, its standard filename is `G - 2005 -   *)
(* 2005-03-26 - 02 R`, and that parses to the group `G - 2005`.            *)
(***************************************************************************)
C10_Claim ==
    (data # None /\ info_ # None /\ FullySpecified(data[1])) =>
        Recovers(data[1], info_[1])

(***************************************************************************)
(* Vocabulary of the claims about the tree of Primaries                    *)
(***************************************************************************)
\* The file name an entry was listed under
FullName(e) == e.name \o (IF e.extension = None THEN <<>> ELSE <<".">> \o e.extension[1])

\* n is pfx, or pfx and a period and anything
EndsOrPeriod(n, pfx) ==
    n = pfx \/ (Len(n) > Len(pfx) /\ SubSeq(n, 1, Len(pfx) + 1) = pfx \o <<".">>)

\* e is listed in a folder that P stands for
ChildOf(e, P) ==
    \E i \in 1..Len(P.targets) :
        isFolderPath(P.targets[i]) /\ e.targets[1] = P.targets[i] \o FullName(e)

SatelliteRule(e, P) ==
    /\ ~isFolder(e)
    /\ e # P
    /\ \/ EndsOrPeriod(e.name, P.name)
       \/ isFolder(P) /\ ChildOf(e, P) /\ EndsOrPeriod(e.name, FOLDER_NAME)

SatellitesReturned == out.op = "satellites" /\ out.status = "ok"

SatelliteFiles == {FullName(out.value[i].entry) : i \in 1..Len(out.value)}

\* satellites() has returned for the file, or for the folder, listed as n
OfFile(n) ==
    SatellitesReturned /\ ~isFolder(tree[out.of].entry) /\ FullName(tree[out.of].entry) = n

OfFolder(n) ==
    SatellitesReturned /\ isFolder(tree[out.of].entry) /\ FullName(tree[out.of].entry) = n

EveryoneFollowsTheRule ==
    SatellitesReturned =>
        \A i \in 1..Len(out.value) : SatelliteRule(out.value[i].entry, tree[out.of].entry)

EpisodeMp4 == Episode \o <<".", "m", "p", "4">>
EpisodeMp4EnVtt == Episode \o <<".", "m", "p", "4", ".", "e", "n", ".", "v", "t", "t">>
EpisodeMp42Vtt == Episode \o <<".", "m", "p", "4", "2", ".", "v", "t", "t">>
Episode2Vtt == Episode \o <<"2", ".", "v", "t", "t">>

\* C11 as the claim states it: a satellite of P is not a folder, is not P's
\* own entry, and is named P's name (or, in the folder P, "folder") followed by
\* nothing or by a period; and the satellites of the file Episode.mp4 include
\* Episode.mp4.en.vtt and do not include Episode.mp42.vtt
C11_Original ==
    /\ EveryoneFollowsTheRule
    /\ OfFile(EpisodeMp4) =>
          EpisodeMp4EnVtt \in SatelliteFiles /\ EpisodeMp42Vtt \notin SatelliteFiles

\* C11 amended: the rule as stated; the name of the file Episode.mp4 is
\* Episode, so that its satellites include Episode.mp4.en.vtt and
\* Episode.mp42.vtt too, and do not include Episode2.vtt; it is the folder
\* Episode.mp4, whose name is Episode.mp4, that has Episode.mp4.en.vtt and
\* has not Episode.mp42.vtt
C11_Amended ==
    /\ EveryoneFollowsTheRule
    /\ OfFile(EpisodeMp4) =>
          /\ EpisodeMp4EnVtt \in SatelliteFiles
          /\ EpisodeMp42Vtt \in SatelliteFiles
          /\ Episode2Vtt \notin SatelliteFiles
    /\ OfFolder(EpisodeMp4) =>
          /\ EpisodeMp4EnVtt \in SatelliteFiles
          /\ EpisodeMp42Vtt \notin SatelliteFiles

C11_Witness == OfFile(EpisodeMp4) /\ EpisodeMp42Vtt \in SatelliteFiles

ImagesReturned == out.op = "images" /\ out.status = "ok"

ImagesOfFile == ImagesReturned /\ ~isFolder(tree[out.of].entry)

\* The image satellites attached to the object at q
Own(q) == getSatellites(disk, tree, q, IMAGE_EXTENSIONS).value

\* The four levels of the file at p, in the order (a) to (d): the places of
\* the file, of its subgroup folder, of its group folder and of its container
\* folder, None where it has no such folder
Levels(p) ==
    <<Some(p), subgroupFolder(Informed(tree, p), p), groupFolder(Informed(tree, p), p),
      containerFolder(Informed(tree, p), p)>>

\* The first sequence of found that is not empty, or the empty one
FirstNonEmpty(found) ==
    IF \A k \in 1..Len(found) : found[k] = <<>> THEN <<>>
    ELSE found[CHOOSE k \in 1..Len(found) :
                   found[k] # <<>> /\ \A j \in 1..(k - 1) : found[j] = <<>>]

\* The satellites of sats that have the tag
Tagged(sats, tag) == SelectSeq(sats, LAMBDA x : \E k \in 1..Len(x.tags) : x.tags[k] = tag)

\* What the folder at q has to give: its own image satellites, or when it has
\* none those of its parent that are tagged with its name
FolderMatches(q) ==
    IF Own(q) # <<>> \/ q = <<>> THEN Own(q)
    ELSE Tagged(Own(SubSeq(q, 1, Len(q) - 1)), tree[q].entry.name)

\* C12 as the claim states it: images() of a file returns the image satellites
\* attached to the first of its four levels that has any, and none when no
\* level has
C12_Original ==
    ImagesOfFile =>
        out.value = FirstNonEmpty([k \in 1..4 |->
                        IF Levels(out.of)[k] = None THEN <<>> ELSE Own(Levels(out.of)[k][1])])

\* C12 amended: the levels are asked in the order (a) to (d) and the answer of
\* the first that has one is returned; the file answers with its own
\* satellites, a folder with its own satellites or, having none, with the
\* satellites of its parent folder that are tagged with its name; the
\* satellites returned are all attached to one object
C12_Amended ==
    ImagesOfFile =>
        /\ out.value = FirstNonEmpty([k \in 1..4 |->
                            IF Levels(out.of)[k] = None THEN <<>>
                            ELSE IF k = 1 THEN Own(out.of)
                            ELSE FolderMatches(Levels(out.of)[k][1])])
        /\ \A i, j \in 1..Len(out.value) : out.value[i].primary = out.value[j].primary

\* images() of a file has returned a satellite attached to none of its levels
C12_Witness ==
    /\ ImagesOfFile
    /\ out.value # <<>>
    /\ \A k \in 1..4 : Levels(out.of)[k] # Some(out.value[1].primary)

GroupsReturned == out.op = "getMediaGroups" /\ out.status = "ok"

\* Where the primary at p stands among the files of the groups returned: the
\* pairs of a group and a position in its files
Filed(p) ==
    {gk \in UNION {{<<g, k>> : k \in 1..Len(out.value[g].files)} : g \in 1..Len(out.value)} :
        out.value[gk[1]].files[gk[2]] = p}

\* The primaries of the input that are files
FilesGiven == {out.of[i] : i \in {j \in 1..Len(out.of) : ~isFolder(tree[out.of[j]].entry)}}

\* C13: getMediaGroups partitions its input by context folder: every file of
\* the input is in the files of exactly one group returned, at one position;
\* no folder and nothing else is in any group; two files are in one group if
\* and only if their contextFolder is the same object; and the folder of a
\* group is the contextFolder of its files
C13_Claim ==
    GroupsReturned =>
        /\ \A p \in FilesGiven : Cardinality(Filed(p)) = 1
        /\ \A g \in 1..Len(out.value) : \A k \in 1..Len(out.value[g].files) :
               /\ out.value[g].files[k] \in FilesGiven
               /\ Some(out.value[g].folder) = contextFolder(tree, out.value[g].files[k])
        /\ \A p, q \in FilesGiven :
               (\E a \in Filed(p), b \in Filed(q) : a[1] = b[1])
                   <=> contextFolder(tree, p) = contextFolder(tree, q)

\* getMediaGroups was given two files of two context folders and has returned
\* two groups
C13_Witness ==
    /\ GroupsReturned
    /\ Cardinality(FilesGiven) = 2
    /\ Len(out.value) = 2

\* The sequences that hold the elements of s in another or the same order
Reorderings(s) ==
    {[i \in 1..Len(s) |-> s[f[i]]] :
        f \in {h \in [1..Len(s) -> 1..Len(s)] : \A i, j \in 1..Len(s) : h[i] = h[j] => i = j}}

\* The files of the group with the same folder among groups, or none
FilesOfFolder(groups, folder) ==
    IF \E h \in 1..Len(groups) : groups[h].folder = folder
    THEN groups[CHOOSE h \in 1..Len(groups) : groups[h].folder = folder].files
    ELSE <<>>

\* The order the claim names: -1 when the file at p goes before the file at
\* q, 1 when it goes after, 0 when the sort keys hold them equal
KeyOrder(p, q) ==
    IF containerFolder(tree, p) = None /\ containerFolder(tree, q) # None THEN -1
    ELSE IF containerFolder(tree, p) # None /\ containerFolder(tree, q) = None THEN 1
    ELSE localeCompare(sortableName(tree, p), sortableName(tree, q))

\* Where the primary at p stands in the input
InputIndex(p) == CHOOSE i \in 1..Len(out.of) : out.of[i] = p

\* Two files of the group have equal sort keys
Tied(files) == \E k, l \in 1..Len(files) : k # l /\ KeyOrder(files[k], files[l]) = 0

\* C14 as the claim states it: every permutation of the input gives the files
\* of each group in the same order, also when two files have equal sort keys
C14_Original ==
    GroupsReturned =>
        \A perm \in Reorderings(out.of) : \A g \in 1..Len(out.value) :
            FilesOfFolder(getMediaGroups(disk, tree, perm).value, out.value[g].folder)
                = out.value[g].files

\* C14 amended: the files of a group are in the order of the sort keys (files
\* without a containerFolder first, then by sortable name), files with equal
\* sort keys stand in the order they had in the input, and every permutation
\* of the input gives the same order to a group in which no two files have
\* equal sort keys
C14_Amended ==
    GroupsReturned =>
        \A g \in 1..Len(out.value) :
            /\ \A k, l \in 1..Len(out.value[g].files) :
                   k < l =>
                       /\ KeyOrder(out.value[g].files[k], out.value[g].files[l]) <= 0
                       /\ KeyOrder(out.value[g].files[k], out.value[g].files[l]) = 0
                              => InputIndex(out.value[g].files[k]) < InputIndex(out.value[g].files[l])
            /\ ~Tied(out.value[g].files) =>
                   \A perm \in Reorderings(out.of) :
                       FilesOfFolder(getMediaGroups(disk, tree, perm).value, out.value[g].folder)
                           = out.value[g].files

\* The group returned holds a file without a containerFolder before a file
\* with one that came first in the input and whose sortable name is the smaller
C14_Witness ==
    /\ GroupsReturned
    /\ Len(out.value) = 1
    /\ Len(out.value[1].files) = 2
    /\ out.of = <<out.value[1].files[2], out.value[1].files[1]>>
    /\ containerFolder(tree, out.value[1].files[1]) = None
    /\ containerFolder(tree, out.value[1].files[2]) # None
    /\ localeCompare(sortableName(tree, out.value[1].files[2]),
                     sortableName(tree, out.value[1].files[1])) < 0

\* The names of the two files of the claim, and their extension
RoseName == DoctorWho \o <<" ", "-", " ", "s", "1", "e", "1", " ", "-", " ", "R", "o", "s", "e">>
AliensName == DoctorWho \o <<" ", "-", " ", "s", "1", "e", "2", " ", "-", " ", "A", "l", "i", "e", "n", "s">>
Mp4 == <<"m", "p", "4">>

\* The place of the file with the name and the extension mp4 in the input
InputNamed(n) ==
    CHOOSE p \in {out.of[i] : i \in 1..Len(out.of)} :
        tree[p].entry.name = n /\ tree[p].entry.extension = Some(Mp4)

\* getMediaGroups was given the two files of the claim and nothing else
TheTwoGiven ==
    /\ GroupsReturned
    /\ Len(out.of) = 2
    /\ \E i, j \in 1..2 :
           /\ tree[out.of[i]].entry.name = RoseName
           /\ tree[out.of[i]].entry.extension = Some(Mp4)
           /\ tree[out.of[j]].entry.name = AliensName
           /\ tree[out.of[j]].entry.extension = Some(Mp4)

\* What the claim says the two files parse to
TheTwoParsed ==
    /\ \A n \in {RoseName, AliensName} :
           /\ Has(knownInfo(tree, InputNamed(n)), "group")
           /\ knownInfo(tree, InputNamed(n))["group"] = DoctorWho
           /\ Has(knownInfo(tree, InputNamed(n)), "subgroupNumber")
           /\ knownInfo(tree, InputNamed(n))["subgroupNumber"] = <<"1">>
           /\ Has(knownInfo(tree, InputNamed(n)), "number")
           /\ Has(knownInfo(tree, InputNamed(n)), "name")
    /\ knownInfo(tree, InputNamed(RoseName))["number"] = <<"1">>
    /\ knownInfo(tree, InputNamed(AliensName))["number"] = <<"2">>
    /\ knownInfo(tree, InputNamed(RoseName))["name"] = <<"R", "o", "s", "e">>
    /\ knownInfo(tree, InputNamed(AliensName))["name"] = <<"A", "l", "i", "e", "n", "s">>

\* One group that is not a subgroup holds both files
TheTwoGrouped ==
    /\ Len(out.value) = 1
    /\ ~out.value[1].isSubgroup
    /\ out.value[1].files = <<InputNamed(RoseName), InputNamed(AliensName)>>

\* C15 as the claim states it: the two files parse to group Doctor Who,
\* subgroupNumber 1, numbers 1 and 2 and names Rose and Aliens, and
\* getMediaGroups puts them in one group with isSubgroup false whose
\* subgroups hold the empty string alone
C15_Original ==
    TheTwoGiven => TheTwoParsed /\ TheTwoGrouped /\ out.value[1].subgroups = <<<<>>>>

\* C15 amended: the two files parse as stated, info gives both the subgroup
\* Season 1 made from the subgroupNumber, and getMediaGroups puts them in one
\* group with isSubgroup false whose subgroups hold Season 1 alone
C15_Amended ==
    TheTwoGiven =>
        /\ TheTwoParsed
        /\ TheTwoGrouped
        /\ \A n \in {RoseName, AliensName} :
               /\ Has(knownInfo(tree, InputNamed(n)), "subgroup")
               /\ knownInfo(tree, InputNamed(n))["subgroup"] = <<"S", "e", "a", "s", "o", "n", " ", "1">>
        /\ out.value[1].subgroups = <<<<"S", "e", "a", "s", "o", "n", " ", "1">>>>

\* getMediaGroups has returned the group of the two files, Aliens having come
\* first in the input
C15_Witness == TheTwoGiven /\ tree[out.of[1]].entry.name = AliensName /\ Len(out.value) = 1

\* An iteration of descendants() has come to its end
WalkDone == walk.status = "done"

\* The place a is above the place b
Above(a, b) == Len(a) < Len(b) /\ SubSeq(b, 1, Len(a)) = a

\* The place a comes before the place b when the tree is gone through depth
\* first, an object before its children and the children in their order
PreOrderBefore(a, b) ==
    \/ Above(a, b)
    \/ \E k \in 1..Len(a) :
           /\ k <= Len(b)
           /\ SubSeq(a, 1, k - 1) = SubSeq(b, 1, k - 1)
           /\ a[k] < b[k]

\* The objects the iteration has yielded
Yielded == {walk.seen[i] : i \in 1..Len(walk.seen)}

\* C16: descendants() of a Primary yields every Primary below it exactly once
\* (the children() of the start and of every object yielded, and no other), in
\* depth-first pre-order with siblings in the order of children(), never the
\* start itself, and an iteration of the same iterable that came before
\* yielded the same sequence
C16_Claim ==
    WalkDone =>
        /\ \A i, j \in 1..Len(walk.seen) : i < j => walk.seen[i] # walk.seen[j]
        /\ \A q \in Yielded \cup {walk.of} :
               /\ tree[q].children_ # None
               /\ \A k \in 1..Len(tree[q].children_[1]) : tree[q].children_[1][k] \in Yielded
        /\ \A q \in Yielded : Above(walk.of, q)
        /\ walk.of \notin Yielded
        /\ \A i, j \in 1..Len(walk.seen) :
               i < j => PreOrderBefore(walk.seen[i], walk.seen[j])
        /\ \A e \in 1..Len(walk.earlier) :
               walk.earlier[e].of = walk.of => walk.earlier[e].seen = walk.seen

\* The iterable of the root has been iterated to the end a second time, and
\* has yielded objects two levels down and objects after them
C16_Witness ==
    /\ WalkDone
    /\ Len(walk.earlier) = 1
    /\ walk.earlier[1].of = walk.of
    /\ \E i, j \in 1..Len(walk.seen) :
           i < j /\ Len(walk.seen[i]) = 3 /\ Len(walk.seen[j]) = 1

\* What the promise of delay(ms) has settled with, None while it is pending
Settled == timeout.promise[1].value

\* C17: the promise of delay(ms) is pending until the timer fires or cancel()
\* is called, and from then on holds what the first of these settled it with:
\* TimeoutExpired when the timer fired before any cancel(), TimeoutCanceled
\* when cancel() came before the timer fired, and then the timer never fires;
\* the calls of cancel() that follow change nothing
C17_Claim ==
    timeout.promise # None =>
        /\ timeout.log = <<>> => Settled = None
        /\ timeout.log # <<>> /\ timeout.log[1] = "fire" => Settled = Some("TimeoutExpired")
        /\ timeout.log # <<>> /\ timeout.log[1] = "cancel" =>
               /\ Settled = Some("TimeoutCanceled")
               /\ \A i \in 1..Len(timeout.log) : timeout.log[i] = "cancel"

\* cancel() has been called twice after the timer fired
C17_Witness ==
    /\ timeout.promise # None
    /\ timeout.log = <<"fire", "cancel", "cancel">>
    /\ Settled = Some("TimeoutExpired")

\* Where in the events of retry the invocations of fn are, in their order
CallsAt ==
    SelectSeq([i \in 1..Len(retried.events) |-> i], LAMBDA i : retried.events[i].kind = "call")

\* The events from invocation k of fn up to the next invocation, or to the end
Attempt(k) ==
    SubSeq(retried.events, CallsAt[k],
           IF k < Len(CallsAt) THEN CallsAt[k + 1] - 1 ELSE Len(retried.events))

\* C18: retry(fn, delays) invokes fn at most 1 + length(delays) times; an
\* invocation that is followed by another has failed, and delays[k - 1] has
\* been waited for between invocation k and invocation k + 1; retry resolves
\* with what the first invocation that returns has returned, and no invocation
\* follows it; it rejects when 1 + length(delays) invocations have failed, with
\* the error of the last
C18_Claim ==
    /\ Len(CallsAt) <= 1 + Len(retried.given)
    /\ \A k \in 1..Len(CallsAt) :
           k < Len(CallsAt) =>
               Attempt(k) = <<[kind |-> "call"],
                              [kind |-> "throw", error |-> Error(k)],
                              [kind |-> "delay", ms |-> retried.given[k]],
                              [kind |-> "waited", ms |-> retried.given[k]]>>
    /\ retried.pc = "calling" <=>
           Len(CallsAt) > 0 /\ Attempt(Len(CallsAt)) = <<[kind |-> "call"]>>
    /\ retried.pc = "resolved" <=>
           /\ Len(CallsAt) > 0
           /\ Attempt(Len(CallsAt)) = <<[kind |-> "call"],
                                        [kind |-> "return", value |-> Value(Len(CallsAt))]>>
           /\ retried.result = Some(Value(Len(CallsAt)))
    /\ retried.pc = "rejected" <=>
           /\ Len(CallsAt) = 1 + Len(retried.given)
           /\ Attempt(Len(CallsAt)) = <<[kind |-> "call"],
                                        [kind |-> "throw", error |-> Error(Len(CallsAt))]>>
           /\ retried.result = Some(Error(Len(CallsAt)))

\* retry has rejected after three invocations with two different delays
\* between them
C18_Witness ==
    /\ retried.pc = "rejected"
    /\ retried.given = <<10, 20>>
    /\ Len(CallsAt) = 3

\* What iterator i has yielded is the beginning of the list: each item once,
\* in the order of the pushes; and an iterator that is done has yielded the
\* whole list, which is closed
YieldsInOrder(i) ==
    /\ Len(iters[i].seen) <= Len(alist.list)
    /\ iters[i].seen = SubSeq(alist.list, 1, Len(iters[i].seen))
    /\ iters[i].pc = "done" => iters[i].seen = alist.list /\ alist.status = "done"

\* On a closed list push() and nextChange() throw, and the list stays as it is
ClosedStaysClosed ==
    alist.status = "done" =>
        /\ alist' = alist
        /\ op' \notin {"push", "nextChange"}

RECURSIVE LoadedFrom(_, _, _)
LoadedFrom(d, e, t) ==
    IF t > Len(e.targets) THEN <<>>
    ELSE LET url == e.targets[t]
             urls == directoryEntries(d, url)
         IN  (IF HasChildren(d, e, url) /\ exists(d, url)
              THEN [i \in 1..Len(urls) |-> loadEntry(d, urls[i]).entry[1]]
              ELSE <<>>) \o LoadedFrom(d, e, t + 1)

\* The result array after the first k loaded entries went through the loop body
RECURSIVE ResultAfter(_, _)
ResultAfter(loaded, k) ==
    IF k = 0 THEN <<>> ELSE Merge(ResultAfter(loaded, k - 1), loaded[k])

\* One Entry object before and after a step: name and extension kept, targets
\* only appended to, the flag only raised
EntryKept(before, after) ==
    /\ after.name = before.name
    /\ after.extension = before.extension
    /\ Len(after.targets) >= Len(before.targets)
    /\ SubSeq(after.targets, 1, Len(before.targets)) = before.targets
    /\ before.targetsMayBeMissing => after.targetsMayBeMissing

\* Every object of the result array is kept by the k-th pass of the loop body
PassKeeps(loaded, k) ==
    LET before == ResultAfter(loaded, k - 1)
        after == ResultAfter(loaded, k)
    IN  /\ Len(after) >= Len(before)
        /\ \A i \in 1..Len(before) : EntryKept(before[i], after[i])

ChildrenKeeps ==
    (op = "children" /\ kids.status = "ok") =>
        LET loaded == LoadedFrom(disk, cur[1], 1)
        IN  /\ ResultAfter(loaded, Len(loaded)) = kids.value
            /\ \A k \in 1..Len(loaded) : PassKeeps(loaded, k)

\* loadEntry and descending put another Entry in the caller's hand; no other
\* operation touches the one it holds
HeldEntryKept ==
    (cur # None /\ cur' # None /\ op' \notin {"loadEntry", "descend"}) =>
        EntryKept(cur[1], cur'[1])

\* C20: across loadEntry and children() operations an Entry's name and
\* extension never change, its targets are only appended to (the existing ones
\* keep value and position) and its targetsMayBeMissing only goes from false
\* to true.
C20_Claim == [](ChildrenKeeps) /\ [][HeldEntryKept]_vars

\* A children() call whose loop body merged a same-named sibling into an entry
\* it already held, growing its targets and raising its flag
C20_Witness ==
    /\ op = "children"
    /\ kids.status = "ok"
    /\ LET loaded == LoadedFrom(disk, cur[1], 1)
       IN  \E k \in 1..Len(loaded) :
             \E i \in 1..Len(ResultAfter(loaded, k - 1)) :
               LET before == ResultAfter(loaded, k - 1)[i]
                   after == ResultAfter(loaded, k)[i]
               IN  /\ Len(after.targets) > Len(before.targets)
                   /\ ~before.targetsMayBeMissing
                   /\ after.targetsMayBeMissing

(***************************************************************************)
(* C21, C30: the caches of a Primary                                       *)
(***************************************************************************)
PosOf(ev, i) == CHOOSE k \in 1..Len(log) : log[k] = Event(ev, i)

HasReturned(i) == i \in 1..Len(flights) /\ flights[i].pc = "returned"

RefreshWithin(from, to) == \E k \in (from + 1)..(to - 1) : log[k].ev = "refresh"

\* A call made after a call has returned, with no refresh() in between,
\* returns the same objects and lists no folder
LaterCallsCached ==
    \A a, b \in 1..Len(flights) :
        (/\ HasReturned(a)
         /\ PosOf("return", a) < PosOf("ask", b)
         /\ ~RefreshWithin(PosOf("return", a), PosOf("ask", b)))
        => /\ flights[b].pc = "returned"
           /\ flights[b].value = flights[a].value
           /\ flights[b].reads = <<>>

\* The first call, and the first call after a refresh(), list the folders
\* that entry.children() lists
FirstCallLists ==
    \A b \in 1..Len(flights) :
        (/\ flights[b].pc # "listing"
         /\ \/ PosOf("ask", b) = 1
            \/ log[PosOf("ask", b) - 1].ev = "refresh")
        => flights[b].reads = children(disk, cur[1]).reads

RefreshClears ==
    op' = "refresh" => entryChildren_' = None /\ children_' = None /\ info_' = None

OnlyRefreshInvalidates ==
    (\/ entryChildren_ # None /\ entryChildren_' # entryChildren_
     \/ children_ # None /\ children_' # children_
     \/ info_ # None /\ info_' # info_)
    => op' = "refresh"

Together(a, b) ==
    /\ HasReturned(a)
    /\ HasReturned(b)
    /\ PosOf("ask", a) < PosOf("ask", b)
    /\ ~RefreshWithin(PosOf("ask", a),
                      IF PosOf("return", a) > PosOf("return", b)
                      THEN PosOf("return", a) + 1 ELSE PosOf("return", b) + 1)

\* What children_ holds was made by a call asked after the last refresh()
NothingStale ==
    children_ # None =>
        \A i \in 1..Len(flights) :
            (HasReturned(i) /\ flights[i].value = children_[1] /\ flights[i].reads # <<>>)
            => ~RefreshWithin(PosOf("ask", i), PosOf("return", i))

SameList == \A a, b \in 1..Len(flights) : Together(a, b) => flights[a].value = flights[b].value

\* C30: children() calls in flight at the same time, with no refresh() in
\* between, return the same list of child objects, and a result computed
\* before refresh() is never installed in the cache after it.
C30_Claim == SameList /\ NothingStale

(***************************************************************************)
(* C22: the group and the subgroup that info takes from the folders        *)
(***************************************************************************)
\* The info getter has answered for a file
InfoKnown == info_ # None /\ filename # None /\ primary # None /\ ~primary[1].isFolder

Captured == parseData(filename[1], standardDataExtractors).groups

FoldersOver == primary[1].folders

\* The grandparent exists and is not the root
GrandParentBelowRoot == Len(FoldersOver) >= 3

ParentName == FoldersOver[Len(FoldersOver)]

GrandParentName == FoldersOver[Len(FoldersOver) - 1]

\* What info gives as the subgroup of a file of the same name with no folder
\* above it
SubgroupOfNameAlone ==
    LET alone == info([name |-> filename[1], extension |-> primary[1].extension,
                       isFolder |-> FALSE, folders |-> <<>>], None).value
    IN  IF Has(alone, "subgroup") THEN Some(alone["subgroup"]) ELSE None

SubgroupOfInfo == IF Has(info_[1], "subgroup") THEN Some(info_[1]["subgroup"]) ELSE None

\* The group and the subgroup of info, the folder names going through Tidy
FolderGroups(Tidy(_)) ==
    InfoKnown =>
        /\ (~Has(Captured, "group") /\ GrandParentBelowRoot) =>
              /\ Has(info_[1], "group")
              /\ info_[1]["group"] = Tidy(GrandParentName)
              /\ ~Has(Captured, "subgroup") => SubgroupOfInfo = Some(Tidy(ParentName))
        /\ (~Has(Captured, "group") /\ ~GrandParentBelowRoot /\ Len(FoldersOver) >= 1) =>
              /\ Has(info_[1], "group")
              /\ info_[1]["group"] = Tidy(ParentName)
              /\ SubgroupOfInfo = SubgroupOfNameAlone
        /\ Has(Captured, "group") =>
              /\ Has(info_[1], "group")
              /\ info_[1]["group"] = cleanup(Captured["group"])

AsItIs(text_) == text_

\* C22: for a file whose filename yields no group, info.group is the
\* grandparent's name when the grandparent exists and is not the root, and
\* info.subgroup then defaults to the parent's name; otherwise info.group is
\* the parent's name and no folder gives the subgroup; a group captured from
\* the filename is never replaced by a folder name.  The folder names are
\* taken as they are.
C22_Original == FolderGroups(AsItIs)

\* C22, amended: the same, but info.group and info.subgroup hold the folder's
\* name with every run of underscores and whitespace replaced by one space.
C22_Amended == FolderGroups(cleanup)

\* The track T two folders below the root, in /L/Q_Q/P/: its group is `Q Q`
C22_Witness ==
    /\ InfoKnown
    /\ ~Has(Captured, "group")
    /\ GrandParentBelowRoot
    /\ GrandParentName = <<"Q", "_", "Q">>
    /\ info_[1]["group"] = <<"Q", " ", "Q">>
    /\ SubgroupOfInfo = Some(ParentName)

(***************************************************************************)
(* C23..C25, C29: the folders of a file.  The file studied and the folders *)
(* above it are the objects of a tree that is one chain: the root, its     *)
(* only child, and so on down to the file                                  *)
(***************************************************************************)
ChainPlace == [k \in 1..Len(FoldersOver) |-> 1]

ChainTree ==
    [q \in {SubSeq(ChainPlace, 1, m) : m \in 0..Len(ChainPlace)} |->
        IF q = ChainPlace
        THEN [entry |-> [name |-> filename[1], extension |-> primary[1].extension],
              info_ |-> info_]
        ELSE [entry |-> [name |-> FoldersOver[Len(q) + 1], extension |-> None],
              info_ |-> None]]

GroupOfInfo == IF Has(info_[1], "group") THEN Some(info_[1]["group"]) ELSE None

\* The grandparent when its name is info.group, else the parent when its name
\* is info.group, else nothing
GroupFolderByName ==
    IF GroupOfInfo # None /\ grandParent(ChainPlace) # None /\ GroupOfInfo = Some(GrandParentName)
    THEN grandParent(ChainPlace)
    ELSE IF GroupOfInfo # None /\ parent(ChainPlace) # None /\ GroupOfInfo = Some(ParentName)
    THEN parent(ChainPlace)
    ELSE None

\* The folder whose name info took as the group
GroupGiver == IF GrandParentBelowRoot THEN grandParent(ChainPlace) ELSE parent(ChainPlace)

GroupFolderIsByName == InfoKnown => groupFolder(ChainTree, ChainPlace) = GroupFolderByName

\* C23: groupFolder is the grandparent when the grandparent's name equals
\* info.group, otherwise the parent when the parent's name equals info.group,
\* otherwise absent; and whenever info.group was inferred from an ancestor
\* folder's name, groupFolder is that ancestor folder.
C23_Claim ==
    InfoKnown =>
        /\ groupFolder(ChainTree, ChainPlace) = GroupFolderByName
        /\ ~Has(Captured, "group") => groupFolder(ChainTree, ChainPlace) = GroupGiver

\* C24: subgroupFolder is defined only when the parent's name equals
\* info.subgroup and the grandparent exists and is the groupFolder, and is then
\* the parent; subgroupFolder and groupFolder are never the same node, and a
\* parent whose grandparent is not the group folder is never the subgroup
\* folder.
C24_Claim ==
    InfoKnown =>
        LET found == subgroupFolder(ChainTree, ChainPlace)
            group_ == groupFolder(ChainTree, ChainPlace)
            fits == /\ SubgroupOfInfo # None
                    /\ parent(ChainPlace) # None
                    /\ SubgroupOfInfo = Some(ParentName)
                    /\ grandParent(ChainPlace) # None
                    /\ grandParent(ChainPlace) = group_
        IN  /\ found # None <=> fits
            /\ found # None => found = parent(ChainPlace) /\ found # group_
            /\ (grandParent(ChainPlace) = None \/ grandParent(ChainPlace) # group_)
                   => found = None

\* `G - S1E2 - T` in /L/G/Season 1/: G is the group folder and Season 1 the
\* subgroup folder
C24_Witness ==
    /\ InfoKnown
    /\ primary[1] = SeasonFile
    /\ Has(Captured, "group")
    /\ groupFolder(ChainTree, ChainPlace) = grandParent(ChainPlace)
    /\ subgroupFolder(ChainTree, ChainPlace) = parent(ChainPlace)
    /\ SubgroupOfInfo = Some(<<"S", "e", "a", "s", "o", "n", " ", "1">>)

\* C25: containerFolder is defined only when the filename itself contains a
\* group that differs from the names of both the grandparent and the parent;
\* when the filename contains no group, the parent is the group or subgroup
\* folder and containerFolder is absent.
C25_Claim ==
    InfoKnown =>
        LET held == containerFolder(ChainTree, ChainPlace)
        IN  /\ held # None =>
                 /\ Has(Captured, "group")
                 /\ parent(ChainPlace) # None => Captured["group"] # ParentName
                 /\ grandParent(ChainPlace) # None => Captured["group"] # GrandParentName
            /\ (~Has(Captured, "group") /\ parent(ChainPlace) # None) =>
                 /\ held = None
                 /\ parent(ChainPlace) \in {groupFolder(ChainTree, ChainPlace),
                                            subgroupFolder(ChainTree, ChainPlace)}

(***************************************************************************)
(* C29: the context folder is the parent                                   *)
(***************************************************************************)
FoldersReturned == {out.value[g].folder : g \in 1..Len(out.value)}

FolderAsked == out.op = "images" /\ isFolder(tree[out.of].entry)

OwnImages == getSatellites(disk, tree, out.of, IMAGE_EXTENSIONS).value

ParentImages ==
    IF parent(out.of) = None THEN <<>>
    ELSE getSatellites(disk, tree, parent(out.of)[1], IMAGE_EXTENSIONS).value

\* C26: for a folder F, findSatellitesLikeFolder returns F's own matching
\* satellites when there is at least one; otherwise exactly the matching
\* satellites of F's parent that carry a tag equal to F's name; otherwise, and
\* when F has no parent, an empty list, without raising; untagged satellites
\* of the parent are never returned.
C26_Claim ==
    FolderAsked =>
        /\ out.status = "ok"
        /\ OwnImages # <<>> => out.value = OwnImages
        /\ OwnImages = <<>> =>
              /\ out.value = Tagged(ParentImages, tree[out.of].entry.name)
              /\ \A k \in 1..Len(out.value) :
                     /\ out.value[k].primary = parent(out.of)[1]
                     /\ out.value[k].tags # <<>>

\* images() of the folder S, which has no image of its own, in a library
\* where G holds folder.jpg and folder.S.jpg: the tagged one alone is returned
C26_Witness ==
    /\ FolderAsked
    /\ tree[out.of].entry.name = <<"S">>
    /\ OwnImages = <<>>
    /\ Len(ParentImages) = 2
    /\ Len(out.value) = 1
    /\ out.value[1].tags = <<<<"S">>>>
    /\ out.value[1].primary = parent(out.of)[1]

(***************************************************************************)
(* C27: isSubgroup, group and name of a MediaGroup                         *)
(***************************************************************************)
InSubgroup(p) == contextFolder(tree, p) = subgroupFolder(tree, p)

NameOf(p) == tree[p].entry.name

\* C27: a MediaGroup has isSubgroup = true if and only if at least one of its
\* files has contextFolder equal to its own subgroupFolder, whatever the order
\* of the input; a group with isSubgroup = true has a folder with a parent,
\* group = folder.parent.name and name = folder.parent.name + " - " +
\* folder.name; every other group has group = name = folder.name.
C27_Claim ==
    GroupsReturned =>
        \A g \in 1..Len(out.value) :
            LET it == out.value[g]
            IN  /\ it.isSubgroup <=> \E k \in 1..Len(it.files) : InSubgroup(it.files[k])
                /\ it.isSubgroup =>
                      /\ parent(it.folder) # None
                      /\ it.group = NameOf(parent(it.folder)[1])
                      /\ it.name = NameOf(parent(it.folder)[1]) \o <<" ", "-", " ">>
                                     \o NameOf(it.folder)
                /\ ~it.isSubgroup => it.group = NameOf(it.folder) /\ it.name = NameOf(it.folder)

\* getMediaGroups was given `A - T.mp4` and then T.mp4 of /L/G/S/: the first is
\* contained in S, the second has S as its subgroup folder, and the one group
\* returned is the subgroup `G - S`
C27_Witness ==
    /\ GroupsReturned
    /\ Len(out.of) = 2
    /\ ~InSubgroup(out.of[1])
    /\ InSubgroup(out.of[2])
    /\ Len(out.value) = 1
    /\ out.value[1].isSubgroup
    /\ out.value[1].name = <<"G", " ", "-", " ", "S">>
    /\ out.value[1].group = <<"G">>

(***************************************************************************)
(* C28: images and imagesFromFirstFile of a MediaGroup                     *)
(***************************************************************************)
ImagesOf(p) == images(disk, tree, p).value

\* imagesFromFirstFile of the group it: the images() of the first of its
\* files, in their sorted order, that has any, or nothing
FromFirstFileWithAny(it) ==
    IF \A k \in 1..Len(it.files) : ImagesOf(it.files[k]) = <<>>
    THEN it.imagesFromFirstFile = <<>>
    ELSE \E k \in 1..Len(it.files) :
            /\ ImagesOf(it.files[k]) # <<>>
            /\ \A j \in 1..(k - 1) : ImagesOf(it.files[j]) = <<>>
            /\ it.imagesFromFirstFile = ImagesOf(it.files[k])

\* C28: in every MediaGroup images holds the images of the context folder, and
\* the images of a file are used only if the folder has none:
\* imagesFromFirstFile is non-empty only when images is empty, and it then
\* holds the images of the first file, in sorted order, that has any.
C28_Original ==
    GroupsReturned =>
        \A g \in 1..Len(out.value) :
            LET it == out.value[g]
            IN  /\ it.images = ImagesOf(it.folder)
                /\ it.imagesFromFirstFile # <<>> => it.images = <<>>
                /\ it.images = <<>> => FromFirstFileWithAny(it)

\* C28, amended: images holds what images() of the context folder returns, and
\* imagesFromFirstFile holds what images() returns for the first file, in the
\* group's sorted order, for which it returns anything, or nothing when there
\* is no such file; it is filled whether or not images is empty.
C28_Amended ==
    GroupsReturned =>
        \A g \in 1..Len(out.value) :
            LET it == out.value[g]
            IN  /\ it.images = ImagesOf(it.folder)
                /\ FromFirstFileWithAny(it)

\* A group of two files of S: the folder has an image, the first file in
\* sorted order has none of its own and the second has one; images holds the
\* folder's and imagesFromFirstFile what images() gives for the first file
C28_Witness ==
    /\ GroupsReturned
    /\ Len(out.value) = 1
    /\ Len(out.value[1].files) = 2
    /\ out.value[1].images # <<>>
    /\ out.value[1].imagesFromFirstFile # <<>>
    /\ out.value[1].imagesFromFirstFile # out.value[1].images
    /\ ImagesOf(out.value[1].files[2]) # out.value[1].imagesFromFirstFile
    /\ out.value[1].imagesFromFirstFile = ImagesOf(out.value[1].files[1])

\* A group whose first file in sorted order has no image while a later one has
C28_WitnessLater ==
    /\ GroupsReturned
    /\ Len(out.value) = 1
    /\ Len(out.value[1].files) = 2
    /\ ImagesOf(out.value[1].files[1]) = <<>>
    /\ out.value[1].imagesFromFirstFile # <<>>

====
